---- MODULE Spec2Model ----
(***************************************************************************)
(* Evolution simulation kernel: Genome, Organism, Environment, Simulation  *)
(* (SimulationEngine with the AI layers), EvolutionIntelligence and        *)
(* EcosystemIntelligence.                                                  *)
(*                                                                         *)
(* Numbers.  The program computes in IEEE doubles; the model computes in   *)
(* fixed point:                                                            *)
(*   traits, adaptive weights, energy, fitness,                            *)
(*   positions, velocities, arena width and height   value * 100           *)
(*   rates, pressures, Math.random() results         value * 1000          *)
(* and a quotient is truncated to that grid.                               *)
(* Every Math.random() call of the source is an input of the action that   *)
(* makes it, drawn from a small set of outcomes in [0, 1).                 *)
(* The cosmetic colour triple of a genome is left out: nothing reads it.   *)
(***************************************************************************)
EXTENDS Integers, Sequences, FiniteSets, TLC

VARIABLES
    \* ---- genome operators applied to stand-alone genomes
    gA,              \* genome the operators act on (mutated in place)
    gB,              \* second parent of a crossover
    child,           \* result of the last Genome.crossover
    lastOp,          \* which operator ran last
    ops,             \* how many operators have run
    adaptiveWeights, \* the weights intelligentMutation reads, trait -> weight * 100
    \* ---- the simulation
    sim,             \* the Simulation object with all it owns
    lastCall,        \* the last call made on the simulation
    ticks,           \* number of driven update() calls so far
    calls,           \* number of other calls so far
    \* ---- the intelligence controllers applied to stand-alone populations
    intel,           \* the controllers, their input and their last results
    \* ---- gene editing (the engine SimulationPage drives)
    pe,              \* the organisms under the editor, and the last call
    \* ---- getAdaptiveMutationRate applied to stand-alone controllers
    rateLab,         \* the controller, the inputs and the rates returned
    \* ---- the objects an organism owns: genome, brain, memory
    org,             \* organisms, the heap of their genomes, and the last call
    \* ---- energy in the engine SimulationPage drives
    prey             \* its organisms and food, and the last call

genomeVars == <<gA, gB, child, lastOp, ops, adaptiveWeights>>
simVars == <<sim, lastCall, ticks, calls>>
labVars == <<rateLab, org, prey>>
otherVars == <<intel, pe, labVars>>
vars == <<gA, gB, child, lastOp, ops, adaptiveWeights, sim, lastCall, ticks, calls, intel, pe,
          rateLab, org, prey>>

\* The stand-alone objects a specification does not exercise.
LabsIdle == rateLab = <<>> /\ org = <<>> /\ prey = <<>>

\* ------------------------------------------------------------------ helpers

Max(a, b) == IF a >= b THEN a ELSE b
Min(a, b) == IF a <= b THEN a ELSE b
Abs(a) == IF a >= 0 THEN a ELSE 0 - a

\* ------------------------------------------------------------------ Genome

Traits == {"speed", "vision", "size", "efficiency"}

\* The `range` argument of each trait's mutate(...) call, * 100.
TraitRange == [speed |-> 500, vision |-> 10000, size |-> 1500, efficiency |-> 50]

\* The `min` argument of each trait's mutate(...) call, * 100.
TraitMin == [speed |-> 50, vision |-> 3000, size |-> 300, efficiency |-> 30]

\* Outcomes of the Math.random() that decides whether a trait mutates.
TestDraws == {0, 900}

\* Outcomes of the Math.random() that sizes the change.
ChangeDraws == {100, 900}

\* One pair of draws per trait.
DrawSets == [Traits -> [test : TestDraws, change : ChangeDraws]]

\* change = (Math.random() - 0.5) * range * 0.3
MutationChange(range, r) == ((r - 500) * range * 3) \div 10000

\* The inner arrow function of Genome.mutate: no upper bound is applied.
mutateValue(value, range, min, rate, d) ==
    IF d.test < rate
    THEN Max(min, value + MutationChange(range, d.change))
    ELSE value

\* Genome.mutate(mutationRate): every trait in turn, each with its own draws.
Genome_mutate(genes, rate, draws) ==
    [t \in Traits |-> mutateValue(genes[t], TraitRange[t], TraitMin[t], rate, draws[t])]

\* The inner arrow function of intelligentMutation: the test is against
\* mutationRate * weight, and again no upper bound is applied.
intelligentMutateValue(value, range, min, weight, rate, d) ==
    IF d.test * 100 < rate * weight
    THEN Max(min, value + MutationChange(range, d.change))
    ELSE value

\* EvolutionIntelligence.intelligentMutation(genome, mutationRate)
intelligentMutation(genes, rate, weights, draws) ==
    [t \in Traits |->
        intelligentMutateValue(genes[t], TraitRange[t], TraitMin[t],
                               weights[t], rate, draws[t])]

\* The crossover as it would be if the genes were averaged as the colours are.
Genome_crossover_averages(p1, p2, pick) ==
    [t \in Traits |-> (p1[t] + p2[t]) \div 2]

\* Genome.crossover(parent1, parent2): pick[t] is Math.random() < 0.5.
Genome_crossover(p1, p2, pick) ==
    [t \in Traits |-> IF pick[t] THEN p1[t] ELSE p2[t]]

\* ------------------------------------------------- genome operators, stand-alone

\* Number of operator calls made on the stand-alone genomes.
MaxOps == 1

\* Mutation rates handed to the operators, * 1000 (0, the default 0.1, the
\* UI's 0.5, and a rate above 1).
Rates == {0, 100, 500, 1500}

\* The trait domains of the specification, * 100.
TraitMax == [speed |-> 1000, vision |-> 20000, size |-> 3000, efficiency |-> 100]

InDomain(genes) == \A t \in Traits : TraitMin[t] <= genes[t] /\ genes[t] <= TraitMax[t]

AboveMin(genes) == \A t \in Traits : TraitMin[t] <= genes[t]

\* Genomes the operators start from: every trait at the bottom, in the middle
\* or at the top of its domain.
MidGenome == [speed |-> 350, vision |-> 10000, size |-> 1200, efficiency |-> 75]

StartGenomes ==
    { [t \in Traits |-> TraitMin[t]], MidGenome, [t \in Traits |-> TraitMax[t]],
      [MidGenome EXCEPT !.speed = 1000], [MidGenome EXCEPT !.efficiency = 30] }

\* Adaptive weights the intelligent mutation runs under, * 100.
StartWeights == { [t \in Traits |-> w] : w \in {50, 200} }

InitGenome ==
    /\ gA \in StartGenomes
    /\ gB \in StartGenomes
    /\ child = gA
    /\ lastOp = "none"
    /\ ops = 0
    /\ adaptiveWeights \in StartWeights
    /\ sim = <<>> /\ lastCall = "none" /\ ticks = 0 /\ calls = 0
    /\ intel = <<>> /\ pe = <<>> /\ LabsIdle

\* genome.mutate(rate) on a genome that is inside its domain
CallMutate ==
    /\ ops < MaxOps
    /\ InDomain(gA)
    /\ \E rate \in Rates, draws \in DrawSets :
          gA' = Genome_mutate(gA, rate, draws)
    /\ lastOp' = "mutate"
    /\ ops' = ops + 1
    /\ UNCHANGED <<gB, child, adaptiveWeights, simVars, otherVars>>

\* evolutionIntelligence.intelligentMutation(genome, rate), same precondition
CallIntelligentMutation ==
    /\ ops < MaxOps
    /\ InDomain(gA)
    /\ \E rate \in Rates, draws \in DrawSets :
          gA' = intelligentMutation(gA, rate, adaptiveWeights, draws)
    /\ lastOp' = "intelligentMutation"
    /\ ops' = ops + 1
    /\ UNCHANGED <<gB, child, adaptiveWeights, simVars, otherVars>>

\* Genome.crossover(gA, gB)
CallCrossover ==
    /\ ops < MaxOps
    /\ InDomain(gA) /\ InDomain(gB)
    /\ \E pick \in [Traits -> BOOLEAN] :
          child' = Genome_crossover(gA, gB, pick)
    /\ lastOp' = "crossover"
    /\ ops' = ops + 1
    /\ UNCHANGED <<gA, gB, adaptiveWeights, simVars, otherVars>>

NextGenome == CallMutate \/ CallIntelligentMutation \/ CallCrossover

SpecGenome == InitGenome /\ [][NextGenome]_vars

\* C1 (as claimed): after mutate, intelligentMutation or crossover on genomes
\* that start inside their domains, every trait of the result lies inside its
\* domain, lower and upper bound alike.
C1_TraitsStayInDomain ==
    lastOp # "none" => InDomain(gA) /\ InDomain(child)

\* The transitions that are a Genome.crossover call.
CrossoverTaken == ops' = ops + 1 /\ lastOp' = "crossover"

\* C15: the child of Genome.crossover(A, B) carries for each trait the value
\* A has or the value B has, and the call leaves A and B as they were.
C15_CrossoverPicksParentValues ==
    [][ CrossoverTaken
          => /\ \A t \in Traits : child'[t] \in {gA[t], gB[t]}
             /\ gA' = gA /\ gB' = gB ]_vars

\* A child that took traits of both parents and equals neither.
C15_Witness ==
    /\ lastOp = "crossover"
    /\ child # gA /\ child # gB
    /\ \E t \in Traits : child[t] = gA[t] /\ child[t] # gB[t]
    /\ \E t \in Traits : child[t] = gB[t] /\ child[t] # gA[t]

\* ------------------------------------------------------------------ Organism

\* this.energy = 100 in the constructor and in clone(), * 100
InitialEnergy == 10000

\* Math.min(this.energy, 120) in collectFood, * 100
EnergyCap == 12000

\* Food: energy = 20 and radius = 4, * 100
FoodEnergy == 2000
FoodRadius == 400

\* new Organism(x, y, genome)
NewOrganism(id, x, y, genes) ==
    [id |-> id, genes |-> genes, x |-> x, y |-> y, energy |-> InitialEnergy,
     foodCollected |-> 0, age |-> 0, alive |-> TRUE, fitness |-> 0,
     vx |-> 0, vy |-> 0]

\* Organism.distance(target) < limit, on the squares
WithinDistance(o, target, limit) ==
    (target.x - o.x) * (target.x - o.x) + (target.y - o.y) * (target.y - o.y)
        < limit * limit

\* v * num / den, truncated toward zero
Scaled(v, num, den) ==
    IF v >= 0 THEN (v * num) \div den ELSE 0 - (((0 - v) * num) \div den)

RemoveAt(seq, i) == SubSeq(seq, 1, i - 1) \o SubSeq(seq, i + 1, Len(seq))

\* collectFood as it would be without the splice: the item stays on the list.
collectFood_keepsItem(o, food) ==
    LET reach == { i \in 1..Len(food) : WithinDistance(o, food[i], o.genes.size) }
    IN  IF reach = {}
        THEN [org |-> o, food |-> food]
        ELSE [org  |-> [o EXCEPT !.energy = Min(o.energy + FoodEnergy, EnergyCap),
                                 !.foodCollected = o.foodCollected + 1],
              food |-> food]

\* Organism.collectFood(environment): the loop runs from the last item down
\* and stops at the first item closer than the body size.  It does not look
\* at this.alive.
collectFood(o, food) ==
    LET reach == { i \in 1..Len(food) : WithinDistance(o, food[i], o.genes.size) }
    IN  IF reach = {}
        THEN [org |-> o, food |-> food]
        ELSE LET i == CHOOSE k \in reach : \A j \in reach : j <= k
             IN  [org  |-> [o EXCEPT !.energy = Min(o.energy + FoodEnergy, EnergyCap),
                                     !.foodCollected = o.foodCollected + 1],
                  food |-> RemoveAt(food, i)]

\* InstinctLayer.checkExhaustion: active (energy < 10) with urgency
\* 1 - energy / 10 above 0.8, that is energy < 2
exhaustionCritical(o) == o.energy < 1000 /\ o.energy < 200

\* InstinctLayer.checkImmediateFood: some food closer than size + radius + 5
immediateFood(o, food) ==
    \E i \in 1..Len(food) : WithinDistance(o, food[i], o.genes.size + FoodRadius + 500)

\* The boundary handling of Organism.update: clamp to the margin and reflect.
bounce(o, width, height) ==
    LET margin == o.genes.size
        a == IF o.x < margin THEN [o EXCEPT !.x = margin, !.vx = Abs(o.vx)] ELSE o
        b == IF a.x > width - margin
             THEN [a EXCEPT !.x = width - margin, !.vx = 0 - Abs(a.vx)] ELSE a
        c == IF b.y < margin THEN [b EXCEPT !.y = margin, !.vy = Abs(b.vy)] ELSE b
        d == IF c.y > height - margin
             THEN [c EXCEPT !.y = height - margin, !.vy = 0 - Abs(c.vy)] ELSE c
    IN  d

\* movementCost * deltaTime * 0.1 with
\* movementCost = (|vx| + |vy|) * (size / 10) * (1 / efficiency)
movementCost(o) ==
    ((Abs(o.vx) + Abs(o.vy)) * o.genes.size) \div (100 * o.genes.efficiency)

\* The death check of Organism.update
deathCheck(o) == IF o.energy <= 0 THEN [o EXCEPT !.alive = FALSE] ELSE o

\* Organism.update with one more collectFood at its end.
Organism_update_eatsAgain(o, food, width, height, v) ==
    IF ~o.alive
    THEN [org |-> o, food |-> food]
    ELSE
      LET aged == [o EXCEPT !.age = o.age + 1]
          decided ==
            IF exhaustionCritical(aged)
            THEN [org  |-> [aged EXCEPT !.vx = Scaled(aged.vx, 3, 10),
                                        !.vy = Scaled(aged.vy, 3, 10)],
                  food |-> food]
            ELSE IF immediateFood(aged, food)
            THEN collectFood(aged, food)
            ELSE [org |-> [aged EXCEPT !.vx = v[1], !.vy = v[2]], food |-> food]
          d == decided.org
          moved == bounce([d EXCEPT !.x = d.x + d.vx, !.y = d.y + d.vy], width, height)
          spent == [moved EXCEPT !.energy = moved.energy - movementCost(moved)]
          once == collectFood(deathCheck(spent), decided.food)
      IN  collectFood(once.org, once.food)

\* Organism.update(environment).  The decision layers (BehavioralBrain,
\* ProximitySystem, ThreatPredictor, ResourceForecaster) write nothing but the
\* velocity and the target: `v` is the velocity they leave behind.
Organism_update(o, food, width, height, v) ==
    IF ~o.alive
    THEN [org |-> o, food |-> food]
    ELSE
      LET aged == [o EXCEPT !.age = o.age + 1]
          decided ==
            IF exhaustionCritical(aged)
            THEN [org  |-> [aged EXCEPT !.vx = Scaled(aged.vx, 3, 10),
                                        !.vy = Scaled(aged.vy, 3, 10)],
                  food |-> food]
            ELSE IF immediateFood(aged, food)
            THEN collectFood(aged, food)
            ELSE [org |-> [aged EXCEPT !.vx = v[1], !.vy = v[2]], food |-> food]
          d == decided.org
          moved == bounce([d EXCEPT !.x = d.x + d.vx, !.y = d.y + d.vy], width, height)
          spent == [moved EXCEPT !.energy = moved.energy - movementCost(moved)]
      IN  collectFood(deathCheck(spent), decided.food)

\* ------------------------------------------------------------ number helpers

\* A double that may be NaN or -Infinity: the results of 0 / 0 and of
\* Math.max() without arguments.
Num(v) == [kind |-> "number", v |-> v]
NaN == [kind |-> "NaN", v |-> 0]
NegInfinity == [kind |-> "-Infinity", v |-> 0]

\* a / b in doubles, for a >= 0 and b >= 0, `scale` fixing the result's grid
Quotient(a, b, scale) ==
    IF b = 0
    THEN (IF a = 0 THEN NaN ELSE [kind |-> "Infinity", v |-> 0])
    ELSE Num((a * scale) \div b)

\* x < bound for a double x: false when x is NaN
LessThan(x, bound) ==
    \/ x.kind = "-Infinity"
    \/ x.kind = "number" /\ x.v < bound

RECURSIVE SumSeq(_)
SumSeq(seq) == IF seq = <<>> THEN 0 ELSE Head(seq) + SumSeq(Tail(seq))

RECURSIVE MaxSeq(_)
MaxSeq(seq) ==
    IF Len(seq) = 1 THEN Head(seq) ELSE Max(Head(seq), MaxSeq(Tail(seq)))

Map(seq, F(_)) == [i \in 1..Len(seq) |-> F(seq[i])]

\* population.filter(o => o.alive) and population.filter(o => !o.alive)
Alive(pop) == SelectSeq(pop, LAMBDA o : o.alive)
Dead(pop) == SelectSeq(pop, LAMBDA o : ~o.alive)

\* array.sort((a, b) => b.key - a.key) on entries [key, item]: descending, and
\* stable (entries with equal keys keep their order)
RECURSIVE InsertDesc(_, _)
InsertDesc(sorted, e) ==
    IF sorted = <<>> THEN <<e>>
    ELSE IF Head(sorted).key >= e.key
         THEN <<Head(sorted)>> \o InsertDesc(Tail(sorted), e)
         ELSE <<e>> \o sorted

RECURSIVE SortEntriesDesc(_)
SortEntriesDesc(entries) ==
    IF entries = <<>> THEN <<>>
    ELSE InsertDesc(SortEntriesDesc(SubSeq(entries, 1, Len(entries) - 1)),
                    entries[Len(entries)])

SortDesc(seq, Key(_)) ==
    LET entries == [i \in 1..Len(seq) |-> [key |-> Key(seq[i]), item |-> seq[i]]]
        sorted == SortEntriesDesc(entries)
    IN  [i \in 1..Len(seq) |-> sorted[i].item]

\* ---------------------------------------------------- EvolutionIntelligence

\* calculateAverage(array, accessor): 0 for an empty array
calculateAverage(seq, F(_)) ==
    IF Len(seq) = 0 THEN 0 ELSE SumSeq(Map(seq, F)) \div Len(seq)

\* compareTraitSuccess(survivors, casualties, trait); correlation * 1000
compareTraitSuccess(survivors, casualties, t) ==
    LET survivorAvg == calculateAverage(survivors, LAMBDA o : o.genes[t])
        casualtyAvg == calculateAverage(casualties, LAMBDA o : o.genes[t])
        advantage == survivorAvg - casualtyAvg
        total == survivorAvg + casualtyAvg
    IN  [survivorAvg |-> survivorAvg, casualtyAvg |-> casualtyAvg,
         advantage |-> advantage,
         correlation |-> Scaled(advantage, 1000, IF total # 0 THEN total ELSE 100)]

\* analyzeTraitDistributions(alive, dead)
analyzeTraitDistributions(survivors, casualties) ==
    [t \in Traits |-> compareTraitSuccess(survivors, casualties, t)]

\* The branch analyzeDeathCauses takes for one casualty
deathCause(o) ==
    IF o.energy <= 0
    THEN (IF o.foodCollected < 3 THEN "starvation" ELSE "exhaustion")
    ELSE IF o.genes.efficiency < 50 THEN "inefficiency" ELSE "unknown"

\* analyzeDeathCauses as it would be with a test of its own for each cause
\* instead of the else-if chain.
analyzeDeathCauses_separateTests(casualties) ==
    [c \in {"starvation", "exhaustion", "inefficiency", "unknown"} |->
        Len(SelectSeq(casualties,
                      LAMBDA o : CASE c = "starvation" -> o.energy <= 0 /\ o.foodCollected < 3
                                   [] c = "exhaustion" -> o.energy <= 0
                                   [] c = "inefficiency" -> o.genes.efficiency < 50
                                   [] OTHER -> o.energy > 0))]

\* analyzeDeathCauses(casualties)
analyzeDeathCauses(casualties) ==
    [c \in {"starvation", "exhaustion", "inefficiency", "unknown"} |->
        Len(SelectSeq(casualties, LAMBDA o : deathCause(o) = c))]

\* calculateResourceEfficiency(population, environment)
calculateResourceEfficiency(pop) ==
    IF Len(pop) = 0 THEN 0
    ELSE (SumSeq(Map(pop, LAMBDA o : o.foodCollected)) * FoodEnergy
            + SumSeq(Map(pop, LAMBDA o : o.energy))) \div Len(pop)

\* The stats as they would be if the death causes were counted over the
\* whole population.
generationStats_countsAll(pop) ==
    [survivalRate |-> Quotient(Len(Alive(pop)), Len(pop), 1000),
     avgFitness |-> calculateAverage(Alive(pop), LAMBDA o : o.fitness),
     avgEnergy |-> calculateAverage(Alive(pop), LAMBDA o : o.energy),
     avgAge |-> calculateAverage(Alive(pop), LAMBDA o : o.age),
     traitDistributions |-> analyzeTraitDistributions(Alive(pop), Dead(pop)),
     deathCauses |-> analyzeDeathCauses(pop),
     resourceEfficiency |-> calculateResourceEfficiency(Alive(pop))]

\* The `stats` object analyzeGeneration builds; survivalRate * 1000
generationStats(pop) ==
    [survivalRate |-> Quotient(Len(Alive(pop)), Len(pop), 1000),
     avgFitness |-> calculateAverage(Alive(pop), LAMBDA o : o.fitness),
     avgEnergy |-> calculateAverage(Alive(pop), LAMBDA o : o.energy),
     avgAge |-> calculateAverage(Alive(pop), LAMBDA o : o.age),
     traitDistributions |-> analyzeTraitDistributions(Alive(pop), Dead(pop)),
     deathCauses |-> analyzeDeathCauses(Dead(pop)),
     resourceEfficiency |-> calculateResourceEfficiency(Alive(pop))]

\* updateEnvironmentalPressures(stats)
updateEnvironmentalPressures(pressures, stats) ==
    [predation |-> pressures.predation,
     starvation |->
        IF stats.deathCauses.starvation > stats.deathCauses.exhaustion
        THEN pressures.starvation + 100
        ELSE Max(0, pressures.starvation - 50),
     competition |->
        IF LessThan(stats.survivalRate, 300)
        THEN pressures.competition + 100
        ELSE pressures.competition,
     instability |->
        ( Abs(stats.traitDistributions["speed"].correlation)
        + Abs(stats.traitDistributions["vision"].correlation)
        + Abs(stats.traitDistributions["size"].correlation)
        + Abs(stats.traitDistributions["efficiency"].correlation) ) \div 4]

\* updateTraitWeights(stats), the weights
updateTraitWeights(weights, stats) ==
    [t \in Traits |->
        LET correlation == stats.traitDistributions[t].correlation
        IN  IF correlation > 100 THEN Min(200, weights[t] + 5)
            ELSE IF correlation < 0 - 100 THEN Max(50, weights[t] - 5)
            ELSE weights[t]]

\* this.traitSuccessRates[trait].length > 20
MaxSuccessRates == 20

\* updateTraitWeights(stats), the success-rate samples
updateSuccessRates(rates, stats) ==
    [t \in Traits |->
        LET pushed == Append(rates[t], stats.traitDistributions[t].correlation)
        IN  IF Len(pushed) > MaxSuccessRates THEN Tail(pushed) ELSE pushed]

\* The weighted fitness selectParents sorts by, * 100000
weightedFitness(o, weights, pressures) ==
    o.fitness * 1000
    + o.genes.speed * weights.speed * 20
    + o.genes.vision * weights.vision
    + o.genes.size * weights.size * 5
    + o.genes.efficiency * weights.efficiency * 100
    + (IF pressures.starvation > 500
       THEN o.genes.efficiency * 20000 + o.genes.vision * 200 ELSE 0)
    + (IF pressures.competition > 500
       THEN o.genes.speed * 3000 + o.genes.size * 1000 ELSE 0)

\* selectParents(population, selectionPressure): slice(0, n) of a shorter
\* array returns the whole array.
selectParents(pop, weights, pressures, selectionPressure) ==
    LET sorted == SortDesc(pop, LAMBDA o : weightedFitness(o, weights, pressures))
        survivalCount == (Len(pop) * selectionPressure) \div 1000
    IN  SubSeq(sorted, 1, Min(Max(survivalCount, 2), Len(sorted)))

\* The rate as it would be if instability damped mutation.
getAdaptiveMutationRate_damps(baseRate, pressures, history) ==
    (baseRate * Max(0, 2000 - pressures.instability)) \div 2000

\* getAdaptiveMutationRate(baseRate)
getAdaptiveMutationRate(baseRate, pressures, history) ==
    LET plain == (baseRate * (2000 + pressures.instability)) \div 2000
        recentSuccess == SubSeq(history, Max(1, Len(history) - 4), Len(history))
        allNumbers == \A i \in 1..Len(recentSuccess) :
                          recentSuccess[i].survivalRate.kind = "number"
        total == SumSeq(Map(recentSuccess, LAMBDA g : g.survivalRate.v))
    IN  IF Len(recentSuccess) >= 5 /\ allNumbers /\ total > 3500
        THEN (plain * 7) \div 10
        ELSE plain

\* ---------------------------------------------------- EcosystemIntelligence

\* this.populationTrends.length > 50
MaxTrendSamples == 50

\* calculateVariance(values), on the squares of the value grid
calculateVariance(values) ==
    IF Len(values) = 0 THEN 0
    ELSE LET avg == SumSeq(values) \div Len(values)
         IN  SumSeq([i \in 1..Len(values) |-> (values[i] - avg) * (values[i] - avg)])
                \div Len(values)

\* calculateDiversity(population): mean variance of the four traits, * 10000
calculateDiversity(pop) ==
    IF Len(pop) = 0 THEN 0
    ELSE ( calculateVariance(Map(pop, LAMBDA o : o.genes.speed))
         + calculateVariance(Map(pop, LAMBDA o : o.genes.vision))
         + calculateVariance(Map(pop, LAMBDA o : o.genes.size))
         + calculateVariance(Map(pop, LAMBDA o : o.genes.efficiency)) ) \div 4

\* calculateStability(): from the samples recorded before this analysis, * 1000
calculateStability(trends) ==
    IF Len(trends) < 5 THEN 0
    ELSE LET recentPop == SubSeq(trends, Max(1, Len(trends) - 9), Len(trends))
             scaled == [i \in 1..Len(recentPop) |-> recentPop[i] * 100]
             avg == SumSeq(scaled) \div Len(scaled)
             variance == calculateVariance(scaled)
         IN  Max(0, 1000 - (variance * 1000) \div (IF avg * avg # 0 THEN avg * avg ELSE 10000))

\* The `analysis` object of analyzeEcosystem; resourceRatio * 1000.  Its
\* dominantTraits and emergentBehaviors entries are reports nothing reads back.
ecosystemAnalysis(pop, food, trends, generationNo) ==
    [populationSize |-> Len(Alive(pop)),
     resourceRatio |-> (Len(food) * 1000) \div Max(Len(Alive(pop)), 1),
     diversity |-> calculateDiversity(Alive(pop)),
     stability |-> calculateStability(trends),
     generation |-> generationNo]

\* The "Limit history" step of analyzeEcosystem: the three windows are
\* shifted together when the population window exceeds 50.
limitHistory(window, trends) ==
    IF Len(trends) > MaxTrendSamples THEN Tail(window) ELSE window

\* updateEcosystemState(analysis), with the population window already updated
updateEcosystemState(state, trends, analysis) ==
    LET recent == SubSeq(trends, Len(trends) - 2, Len(trends))
        trend == recent[3] - recent[1]
        phase ==
            IF Len(trends) >= 3
            THEN (IF trend > 5 THEN "growth"
                  ELSE IF trend < 0 - 5 THEN "decline"
                  ELSE IF analysis.populationSize < 5 THEN "crisis"
                  ELSE "stable")
            ELSE state.phase
        pressure ==
            IF analysis.resourceRatio < 1000 THEN "high"
            ELSE IF analysis.resourceRatio < 2000 THEN "medium"
            ELSE "low"
        diversity ==
            IF analysis.diversity < 50000 THEN "low"
            ELSE IF analysis.diversity < 150000 THEN "medium"
            ELSE "high"
    IN  [phase |-> phase, pressure |-> pressure, diversity |-> diversity]

\* ------------------------------------------------------------- Environment

\* The canvas the simulation is constructed on, in arena units.
ArenaWidth == 100
ArenaHeight == 50

\* this.environment.spawnFood(50), in the constructor, nextGeneration and reset
InitialFoodCount == 50

\* this.environment.spawnFood(100), the abundance event
AbundanceFoodCount == 100

\* Math.min(foodDeficit, 5) in maintainFood
MaxFoodPerTick == 5

\* new Food(x, y)
Food(x, y) == [x |-> x, y |-> y]

\* Environment.spawnFood(count): item i of the call lands on spots[i], the
\* sequence of spots repeating.
spawnFood(food, count, spots) ==
    food \o [i \in 1..count |-> spots[((i - 1) % Len(spots)) + 1]]

\* maintainFood as it would be if it always spawned its five items.
maintainFood_overshoots(env, spots) ==
    LET targetFoodCount == (ArenaWidth * ArenaHeight * env.foodAbundance) \div 250000
        foodDeficit == targetFoodCount - Len(env.food)
    IN  IF foodDeficit > 0
        THEN [env EXCEPT !.food = spawnFood(env.food, MaxFoodPerTick, spots)]
        ELSE env

\* Environment.maintainFood(), called by Environment.update()
maintainFood(env, spots) ==
    LET targetFoodCount == (ArenaWidth * ArenaHeight * env.foodAbundance) \div 250000
        foodDeficit == targetFoodCount - Len(env.food)
    IN  IF foodDeficit > 0
        THEN [env EXCEPT !.food = spawnFood(env.food, Min(foodDeficit, MaxFoodPerTick), spots)]
        ELSE env

\* -------------------------------------------------------------- Simulation

\* this.generationLength = 1000
generationLength == 1000

\* Organism.calculateFitness()
calculateFitness(o) ==
    [o EXCEPT !.fitness = o.foodCollected * 1000 + o.age * 10
                            + (IF o.energy > 0 THEN o.energy ELSE 0)]

\* allDead() that asks for an organism to have died
allDead_needsOne(pop) == Len(pop) > 0 /\ \A i \in 1..Len(pop) : ~pop[i].alive

\* Simulation.allDead(): every() of an empty array is true
allDead(pop) == \A i \in 1..Len(pop) : ~pop[i].alive

\* The organism loop of Simulation.update(): in list order, each organism
\* seeing the food the earlier ones left.
RECURSIVE updateOrganisms(_, _, _, _)
updateOrganisms(pop, env, vs, i) ==
    IF i > Len(pop) THEN [population |-> pop, environment |-> env]
    ELSE LET r == Organism_update(pop[i], env.food, env.width, env.height, vs[i])
         IN  updateOrganisms([pop EXCEPT ![i] = r.org],
                             [env EXCEPT !.food = r.food], vs, i + 1)

\* Simulation.recordStats(): the division by fitnesses.length and Math.max of
\* an empty spread are not guarded.
recordStats(stats, pop) ==
    LET alive == Alive(pop)
        fitnesses == Map(pop, LAMBDA o : o.fitness)
        withFitness ==
            [stats EXCEPT
                !.avgFitness = Append(@, Quotient(SumSeq(fitnesses), Len(fitnesses), 1)),
                !.bestFitness = Append(@, IF Len(fitnesses) = 0 THEN NegInfinity
                                          ELSE Num(MaxSeq(fitnesses)))]
    IN  IF Len(alive) > 0
        THEN [withFitness EXCEPT
                !.avgSpeed = Append(@, SumSeq(Map(alive, LAMBDA o : o.genes.speed)) \div Len(alive)),
                !.avgVision = Append(@, SumSeq(Map(alive, LAMBDA o : o.genes.vision)) \div Len(alive)),
                !.avgSize = Append(@, SumSeq(Map(alive, LAMBDA o : o.genes.size)) \div Len(alive)),
                !.avgEfficiency = Append(@, SumSeq(Map(alive, LAMBDA o : o.genes.efficiency)) \div Len(alive))]
        ELSE withFitness

\* EvolutionIntelligence.analyzeGeneration(population, environment): the
\* controller after the call; the stats it returns are the last history entry.
analyzeGeneration(ei, pop) ==
    LET stats == generationStats(pop)
    IN  [generationHistory |-> Append(ei.generationHistory, stats),
         environmentalPressures |-> updateEnvironmentalPressures(ei.environmentalPressures, stats),
         traitSuccessRates |-> updateSuccessRates(ei.traitSuccessRates, stats),
         adaptiveWeights |-> updateTraitWeights(ei.adaptiveWeights, stats)]

\* EcosystemIntelligence.analyzeEcosystem(population, environment, generation):
\* the controller after the call, and the analysis it returns.
analyzeEcosystem(eco, pop, food, generationNo) ==
    LET analysis == ecosystemAnalysis(pop, food, eco.populationTrends, generationNo)
        trends == Append(eco.populationTrends, analysis.populationSize)
    IN  [eco |->
            [populationTrends |-> limitHistory(trends, trends),
             diversityIndex |-> limitHistory(Append(eco.diversityIndex, analysis.diversity), trends),
             stabilityScore |-> limitHistory(Append(eco.stabilityScore, analysis.stability), trends),
             ecosystemState |->
                updateEcosystemState(eco.ecosystemState, limitHistory(trends, trends), analysis)],
         analysis |-> analysis]

\* Ids of organisms: the source draws a random string per organism.
OrganismIds(pop) == { pop[i].id : i \in 1..Len(pop) }

\* The k-th id, counted from 1, that no organism of `used` carries.
RECURSIVE FreshId(_, _, _)
FreshId(used, k, from) ==
    IF from \in used THEN FreshId(used, k, from + 1)
    ELSE IF k = 1 THEN from
    ELSE FreshId(used, k - 1, from + 1)

\* survivors[Math.floor(Math.random() * survivors.length)]
pickParent(survivors, r) == survivors[((r * Len(survivors)) \div 1000) + 1]

\* One pass of the breeding loop of nextGeneration: two parents, crossover,
\* intelligent mutation, a new organism at a random place.
breed(survivors, weights, rate, d, id) ==
    LET parent1 == pickParent(survivors, d.r1)
        parent2 == pickParent(survivors, d.r2)
        childGenome == Genome_crossover(parent1.genes, parent2.genes, d.pick)
    IN  NewOrganism(id, d.x, d.y, intelligentMutation(childGenome, rate, weights, d.draws))

\* nextGeneration as it would be if the parents were selected, and the
\* children mutated, before the analysis of the generation: with the weights
\* and pressures the previous turnover left.
nextGeneration_selectsFirst(s, draws, spots) ==
    LET scored == Map(s.population, calculateFitness)
        old == s.evolutionIntelligence
        ei == analyzeGeneration(old, scored)
        eco == analyzeEcosystem(s.ecosystemIntelligence, scored,
                                s.environment.food, s.generation)
        sorted == SortDesc(scored, LAMBDA o : o.fitness)
        stats == recordStats(
                    [s.stats EXCEPT
                        !.evolutionAnalysis = ei.generationHistory[Len(ei.generationHistory)],
                        !.ecosystemAnalysis = eco.analysis],
                    sorted)
        survivors == selectParents(sorted, old.adaptiveWeights,
                                   old.environmentalPressures, s.selectionPressure)
        adaptiveMutationRate ==
            getAdaptiveMutationRate(s.mutationRate, old.environmentalPressures,
                                    old.generationHistory)
        populationSize == Len(s.population)
        newPopulation ==
            [i \in 1..populationSize |->
                breed(survivors, old.adaptiveWeights, adaptiveMutationRate, draws[i],
                      FreshId(OrganismIds(s.population), i, 1))]
    IN  [s EXCEPT
            !.evolutionIntelligence = ei,
            !.ecosystemIntelligence = eco.eco,
            !.stats = stats,
            !.population = newPopulation,
            !.generation = s.generation + 1,
            !.environment.food = spawnFood(<<>>, InitialFoodCount, spots)]

\* Simulation.nextGeneration()
nextGeneration(s, draws, spots) ==
    LET scored == Map(s.population, calculateFitness)
        ei == analyzeGeneration(s.evolutionIntelligence, scored)
        eco == analyzeEcosystem(s.ecosystemIntelligence, scored,
                                s.environment.food, s.generation)
        sorted == SortDesc(scored, LAMBDA o : o.fitness)
        stats == recordStats(
                    [s.stats EXCEPT
                        !.evolutionAnalysis = ei.generationHistory[Len(ei.generationHistory)],
                        !.ecosystemAnalysis = eco.analysis],
                    sorted)
        survivors == selectParents(sorted, ei.adaptiveWeights,
                                   ei.environmentalPressures, s.selectionPressure)
        adaptiveMutationRate ==
            getAdaptiveMutationRate(s.mutationRate, ei.environmentalPressures,
                                    ei.generationHistory)
        populationSize == Len(s.population)
        newPopulation ==
            [i \in 1..populationSize |->
                breed(survivors, ei.adaptiveWeights, adaptiveMutationRate, draws[i],
                      FreshId(OrganismIds(s.population), i, 1))]
    IN  [s EXCEPT
            !.evolutionIntelligence = ei,
            !.ecosystemIntelligence = eco.eco,
            !.stats = stats,
            !.population = newPopulation,
            !.generation = s.generation + 1,
            !.environment.food = spawnFood(<<>>, InitialFoodCount, spots)]

\* The tick as it would be if it swept the dead off the list.
tick_dropsDead(s, vs, spots) ==
    LET fed == maintainFood(s.environment, spots)
        updated == updateOrganisms(s.population, fed, vs, 1)
    IN  [s EXCEPT !.environment = updated.environment,
                  !.population = Alive(updated.population),
                  !.generationTimer = s.generationTimer + 1]

\* Simulation.update() up to the generation check: the environment, then
\* every organism, then the timer
tick(s, vs, spots) ==
    LET fed == maintainFood(s.environment, spots)
        updated == updateOrganisms(s.population, fed, vs, 1)
    IN  [s EXCEPT !.environment = updated.environment,
                  !.population = updated.population,
                  !.generationTimer = s.generationTimer + 1]

\* The generation check as it would be without the allDead() test.
generationEnds_timerOnly(s) ==
    s.generationTimer >= generationLength

\* this.generationTimer >= this.generationLength || this.allDead()
generationEnds(s) ==
    s.generationTimer >= generationLength \/ allDead(s.population)

\* update() as it would be without `this.generationTimer = 0`.
Simulation_update_keepsTimer(s, vs, draws, spots) ==
    IF ~s.running THEN s
    ELSE LET ticked == tick(s, vs, spots)
         IN  IF generationEnds(ticked)
             THEN nextGeneration(ticked, draws, spots)
             ELSE ticked

\* update() as it would be without `if (!this.running) return`.
Simulation_update_ignoresPause(s, vs, draws, spots) ==
    LET ticked == tick(s, vs, spots)
    IN  IF generationEnds(ticked)
        THEN [nextGeneration(ticked, draws, spots) EXCEPT !.generationTimer = 0]
        ELSE ticked

\* Simulation.update(): one driven tick
Simulation_update(s, vs, draws, spots) ==
    IF ~s.running THEN s
    ELSE LET ticked == tick(s, vs, spots)
         IN  IF generationEnds(ticked)
             THEN [nextGeneration(ticked, draws, spots) EXCEPT !.generationTimer = 0]
             ELSE ticked

\* Simulation.cloneOrganism(organism), with Organism.clone and Genome.clone
cloneOrganism(s, i) ==
    LET o == s.population[i]
        clone == NewOrganism(FreshId(OrganismIds(s.population), 1, 1), o.x, o.y, o.genes)
    IN  [s EXCEPT !.population = Append(@, clone)]

\* Simulation.mutateOrganism(organism, intensity)
mutateOrganism(s, i, intensity, draws) ==
    [s EXCEPT !.population[i].genes = Genome_mutate(@, intensity, draws)]

\* Simulation.eliminateOrganism(organism), for an organism of the list
eliminateOrganism(s, i) ==
    [s EXCEPT !.population = RemoveAt(@, i)]

\* The meteor loop: this.population[randomIndex].alive = false, once per draw
RECURSIVE killAt(_, _)
killAt(pop, indices) ==
    IF indices = <<>> THEN pop
    ELSE killAt([pop EXCEPT ![Head(indices)].alive = FALSE], Tail(indices))

\* The kill count as it would be if the product were rounded up.
killCount_roundsUp(pop) == (Len(pop) * 3 + 9) \div 10

\* Math.floor(this.population.length * 0.3)
killCount(pop) == (Len(pop) * 3) \div 10

\* triggerEvent as it would be if the plague halved without its floor of 10.
triggerEvent_plagueUnfloored(s, eventType, indices, spots) ==
    CASE eventType = "meteor" ->
            [s EXCEPT !.population = killAt(@, indices)]
      [] eventType = "ice-age" ->
            [s EXCEPT
                !.population =
                    [i \in 1..Len(@) |->
                        [@[i] EXCEPT !.genes.efficiency = (@ * 7) \div 10]],
                !.evolutionIntelligence.adaptiveWeights.efficiency = @ + 30]
      [] eventType = "abundance" ->
            [s EXCEPT !.environment.food = spawnFood(@, AbundanceFoodCount, spots)]
      [] eventType = "plague" ->
            [s EXCEPT
                !.population =
                    [i \in 1..Len(@) |->
                        [@[i] EXCEPT !.energy = @ \div 2]],
                !.evolutionIntelligence.adaptiveWeights.efficiency = @ + 20]
      [] OTHER -> s

\* Simulation.triggerEvent(eventType).  PlayerInteractionIntelligence keeps
\* its own log and patches the behavioural brains, which the velocity stands for.
triggerEvent(s, eventType, indices, spots) ==
    CASE eventType = "meteor" ->
            [s EXCEPT !.population = killAt(@, indices)]
      [] eventType = "ice-age" ->
            [s EXCEPT
                !.population =
                    [i \in 1..Len(@) |->
                        [@[i] EXCEPT !.genes.efficiency = (@ * 7) \div 10]],
                !.evolutionIntelligence.adaptiveWeights.efficiency = @ + 30]
      [] eventType = "abundance" ->
            [s EXCEPT !.environment.food = spawnFood(@, AbundanceFoodCount, spots)]
      [] eventType = "plague" ->
            [s EXCEPT
                !.population =
                    [i \in 1..Len(@) |->
                        [@[i] EXCEPT !.energy = Max(1000, @ \div 2)]],
                !.evolutionIntelligence.adaptiveWeights.efficiency = @ + 20]
      [] OTHER -> s

\* Simulation.reset(): the two controllers are not touched, and the new stats
\* object has no analysis entries.
Undefined == [kind |-> "undefined"]
Null == [kind |-> "null"]

EmptyStats(analysis) ==
    [avgFitness |-> <<>>, bestFitness |-> <<>>, avgSpeed |-> <<>>, avgVision |-> <<>>,
     avgSize |-> <<>>, avgEfficiency |-> <<>>,
     ecosystemAnalysis |-> analysis, evolutionAnalysis |-> analysis]

\* Simulation.initializePopulation(size): made[i] is the random genome and
\* place of the i-th organism, ids fresh with respect to `old`.
initializePopulation(old, made) ==
    [i \in 1..Len(made) |->
        NewOrganism(FreshId(OrganismIds(old), i, 1), made[i].x, made[i].y, made[i].genes)]

Simulation_reset(s, made, spots) ==
    [s EXCEPT
        !.generation = 0,
        !.generationTimer = 0,
        !.stats = EmptyStats(Undefined),
        !.population = initializePopulation(s.population, made),
        !.environment.food = spawnFood(<<>>, InitialFoodCount, spots)]

\* new EvolutionIntelligence()
NewEvolutionIntelligence ==
    [generationHistory |-> <<>>,
     environmentalPressures |->
        [predation |-> 0, starvation |-> 0, competition |-> 0, instability |-> 0],
     traitSuccessRates |-> [t \in Traits |-> <<>>],
     adaptiveWeights |-> [t \in Traits |-> 100]]

\* new EcosystemIntelligence()
NewEcosystemIntelligence ==
    [populationTrends |-> <<>>, diversityIndex |-> <<>>, stabilityScore |-> <<>>,
     ecosystemState |-> [phase |-> "growth", pressure |-> "low", diversity |-> "high"]]

\* new Simulation(width, height, populationSize)
NewSimulation(made, spots) ==
    [environment |->
        [width |-> ArenaWidth * 100, height |-> ArenaHeight * 100,
         food |-> spawnFood(<<>>, InitialFoodCount, spots), foodAbundance |-> 50],
     population |-> initializePopulation(<<>>, made),
     generation |-> 0,
     running |-> FALSE,
     generationTimer |-> 0,
     mutationRate |-> 100,
     selectionPressure |-> 500,
     evolutionIntelligence |-> NewEvolutionIntelligence,
     ecosystemIntelligence |-> NewEcosystemIntelligence,
     stats |-> EmptyStats(Null)]

\* ------------------------------------------------------- the simulation run

\* Largest population the run holds (the constructor's populationSize, and
\* the room cloneOrganism has).
MaxPop == 2

\* Driven update() calls followed.
MaxTicks == 2

\* Other calls (interventions, events, controls) followed.
MaxCalls == 1

\* Ticks left in the generation when a run is picked up late in it.
LateTicks == 2

\* Random genomes of the Genome constructor: speed in [1, 6), vision in
\* [50, 150), size in [5, 20), efficiency in [0.5, 1).
BigGenome == [speed |-> 590, vision |-> 10000, size |-> 1900, efficiency |-> 50]
SmallGenome == [speed |-> 200, vision |-> 5000, size |-> 500, efficiency |-> 90]
NewGenomes == {BigGenome, SmallGenome}

\* Random places, all on the middle line of the arena.
MidLine == (ArenaHeight * 100) \div 2
FoodSpotA == Food(5000, MidLine)
FoodSpotB == Food(9000, MidLine)
FoodSpotSeqs == { <<FoodSpotA>>, <<FoodSpotA, FoodSpotB>> }

\* What initializePopulation draws for one organism.
Births ==
    { [x |-> 2800, y |-> MidLine, genes |-> BigGenome],
      [x |-> 8000, y |-> MidLine, genes |-> SmallGenome] }

\* Organisms late in the first generation: one about to starve while gliding
\* onto food, one critically exhausted, one starved earlier, one well fed.
LateOrganisms ==
    { [genes |-> BigGenome, x |-> 2800, y |-> MidLine, energy |-> 210, foodCollected |-> 0,
       age |-> generationLength - LateTicks, alive |-> TRUE, fitness |-> 0,
       vx |-> 590, vy |-> 0],
      [genes |-> BigGenome, x |-> 2800, y |-> MidLine, energy |-> 50, foodCollected |-> 1,
       age |-> generationLength - LateTicks, alive |-> TRUE, fitness |-> 0,
       vx |-> 590, vy |-> 0],
      [genes |-> SmallGenome, x |-> 8000, y |-> MidLine, energy |-> 0 - 30, foodCollected |-> 3,
       age |-> 500, alive |-> FALSE, fitness |-> 0, vx |-> 200, vy |-> 0],
      [genes |-> SmallGenome, x |-> 8000, y |-> MidLine, energy |-> 8000, foodCollected |-> 2,
       age |-> generationLength - LateTicks, alive |-> TRUE, fitness |-> 0,
       vx |-> 0, vy |-> 0] }

WithIds(orgs) ==
    [i \in 1..Len(orgs) |->
        [id |-> i, genes |-> orgs[i].genes, x |-> orgs[i].x, y |-> orgs[i].y,
         energy |-> orgs[i].energy, foodCollected |-> orgs[i].foodCollected,
         age |-> orgs[i].age, alive |-> orgs[i].alive, fitness |-> orgs[i].fitness,
         vx |-> orgs[i].vx, vy |-> orgs[i].vy]]

\* A simulation just constructed, or one picked up late in its first
\* generation, running.
Init ==
    /\ \E n \in 0..MaxPop, spots \in FoodSpotSeqs :
          \/ \E made \in [1..n -> Births] : sim = NewSimulation(made, spots)
          \/ \E orgs \in [1..n -> LateOrganisms] :
                sim = [NewSimulation(<<>>, spots) EXCEPT
                          !.population = WithIds(orgs),
                          !.running = TRUE,
                          !.generationTimer = generationLength - LateTicks]
    /\ lastCall = "new"
    /\ ticks = 0
    /\ calls = 0
    /\ gA = MidGenome /\ gB = MidGenome /\ child = MidGenome
    /\ lastOp = "none" /\ ops = 0
    /\ adaptiveWeights = [t \in Traits |-> 100]
    /\ intel = <<>> /\ pe = <<>> /\ LabsIdle

\* Velocities the decision layers leave: along an axis at the organism's
\* speed (moveTowards), or none.
Velocities(o) ==
    IF o.alive
    THEN { <<o.genes.speed, 0>>, <<0, 0>> }
    ELSE { <<0, 0>> }

RECURSIVE VelocityDraws(_)
VelocityDraws(pop) ==
    IF pop = <<>> THEN { <<>> }
    ELSE { <<v>> \o rest : v \in Velocities(Head(pop)), rest \in VelocityDraws(Tail(pop)) }

\* Draws of one pass of the breeding loop.
AllFirst == [t \in Traits |-> TRUE]
Alternate == [t \in Traits |-> t \in {"speed", "size"}]
NoMutation == [t \in Traits |-> [test |-> 900, change |-> 500]]
MutateUp == [t \in Traits |-> [test |-> 0, change |-> 900]]
MutateDown == [t \in Traits |-> [test |-> 0, change |-> 100]]

BreedDraws ==
    { [r1 |-> 0, r2 |-> 0, pick |-> AllFirst, draws |-> NoMutation, x |-> 2800, y |-> MidLine],
      [r1 |-> 500, r2 |-> 0, pick |-> Alternate, draws |-> MutateUp, x |-> 8000, y |-> MidLine] }

\* The places a call draws, when it spawns food at all.
SpotsFor(spawns) ==
    IF spawns THEN FoodSpotSeqs ELSE { <<FoodSpotA>> }

\* update() spawns food in maintainFood when food is short, and in
\* nextGeneration.
StepSpawns(s, vs) ==
    /\ s.running
    /\ \/ maintainFood(s.environment, <<FoodSpotA>>) # s.environment
       \/ generationEnds(tick(s, vs, <<FoodSpotA>>))

\* The breeding draws a step needs: none unless the generation ends in it.
BreedDrawsFor(s, ends) ==
    IF ends THEN [1..Len(s.population) -> BreedDraws] ELSE { <<>> }

\* One call of simulation.update() by the host loop.
Step ==
    /\ ticks < MaxTicks
    /\ \E vs \in VelocityDraws(sim.population) :
          \E spots \in SpotsFor(StepSpawns(sim, vs)) :
          \E draws \in BreedDrawsFor(sim, sim.running /\ generationEnds(tick(sim, vs, spots))) :
              sim' = Simulation_update(sim, vs, draws, spots)
    /\ lastCall' = "update"
    /\ ticks' = ticks + 1
    /\ UNCHANGED <<calls, genomeVars, otherVars>>

Start ==
    /\ calls < MaxCalls
    /\ sim' = [sim EXCEPT !.running = TRUE]
    /\ lastCall' = "start"
    /\ calls' = calls + 1
    /\ UNCHANGED <<ticks, genomeVars, otherVars>>

Pause ==
    /\ calls < MaxCalls
    /\ sim' = [sim EXCEPT !.running = FALSE]
    /\ lastCall' = "pause"
    /\ calls' = calls + 1
    /\ UNCHANGED <<ticks, genomeVars, otherVars>>

Reset ==
    /\ calls < MaxCalls
    /\ \E made \in [1..Len(sim.population) -> Births], spots \in FoodSpotSeqs :
          sim' = Simulation_reset(sim, made, spots)
    /\ lastCall' = "reset"
    /\ calls' = calls + 1
    /\ UNCHANGED <<ticks, genomeVars, otherVars>>

CloneOrganism ==
    /\ calls < MaxCalls
    /\ Len(sim.population) < MaxPop
    /\ \E i \in 1..Len(sim.population) : sim' = cloneOrganism(sim, i)
    /\ lastCall' = "cloneOrganism"
    /\ calls' = calls + 1
    /\ UNCHANGED <<ticks, genomeVars, otherVars>>

\* The UI passes intensity 0.5.
MutateOrganism ==
    /\ calls < MaxCalls
    /\ \E i \in 1..Len(sim.population), draws \in {MutateUp, MutateDown} :
          sim' = mutateOrganism(sim, i, 500, draws)
    /\ lastCall' = "mutateOrganism"
    /\ calls' = calls + 1
    /\ UNCHANGED <<ticks, genomeVars, otherVars>>

EliminateOrganism ==
    /\ calls < MaxCalls
    /\ \E i \in 1..Len(sim.population) : sim' = eliminateOrganism(sim, i)
    /\ lastCall' = "eliminateOrganism"
    /\ calls' = calls + 1
    /\ UNCHANGED <<ticks, genomeVars, otherVars>>

EventTypes == {"meteor", "ice-age", "abundance", "plague"}

TriggerEvent ==
    /\ calls < MaxCalls
    /\ \E eventType \in EventTypes :
       \E spots \in SpotsFor(eventType = "abundance"),
          indices \in [1..killCount(sim.population) -> 1..Len(sim.population)] :
          /\ sim' = triggerEvent(sim, eventType, indices, spots)
          /\ lastCall' = eventType
    /\ calls' = calls + 1
    /\ UNCHANGED <<ticks, genomeVars, otherVars>>

Next ==
    \/ Step
    \/ Start
    \/ Pause
    \/ Reset
    \/ CloneOrganism
    \/ MutateOrganism
    \/ EliminateOrganism
    \/ TriggerEvent

Spec == Init /\ [][Next]_vars

\* ------------------------------------------- properties of the simulation

\* The analysis of the generation that ended last.
LastAnalysis ==
    sim.evolutionIntelligence.generationHistory[Len(sim.evolutionIntelligence.generationHistory)]

Last(seq) == seq[Len(seq)]

\* An analysis that counted no living organism: 0 / N, or 0 / 0.
NoneAlive(stats) == stats.survivalRate \in {Num(0), NaN}

\* The transitions that are an update() call, and those that are a global
\* event: only they count the tick, or leave an event as the last call.
StepTaken == ticks' = ticks + 1
EventTaken == calls' = calls + 1 /\ lastCall' \in EventTypes

SameOrganisms(before, after) ==
    /\ Len(after) = Len(before)
    /\ \A i \in 1..Len(before) : after[i].id = before[i].id

FreshPopulation(before, after) ==
    /\ Len(after) = Len(before)
    /\ OrganismIds(after) \cap OrganismIds(before) = {}
    /\ \A i \in 1..Len(after) :
          /\ after[i].alive
          /\ after[i].energy = InitialEnergy
          /\ after[i].age = 0
          /\ after[i].foodCollected = 0

\* C3: from a RUNNING state in which every organism of a population of
\* N >= 2 is dead, the next step runs the turnover: it leaves exactly N
\* organisms, all alive with the initial energy, and the generation advanced.
C3_ExtinctionTurnsOver ==
    [][ (StepTaken /\ sim.running /\ Len(sim.population) >= 2 /\ allDead(sim.population))
          => /\ sim'.generation = sim.generation + 1
             /\ Len(sim'.population) = Len(sim.population)
             /\ \A i \in 1..Len(sim'.population) :
                   sim'.population[i].alive /\ sim'.population[i].energy = InitialEnergy ]_vars

\* One step from a running state with two organisms that had both died of
\* exhaustion: the generation has turned over.
C3_Witness ==
    /\ lastCall = "update" /\ ticks = 1 /\ calls = 0
    /\ sim.generation = 1
    /\ Len(sim.population) = 2
    /\ LastAnalysis.survivalRate = Num(0)
    /\ LastAnalysis.deathCauses.exhaustion = 2

\* C5 (as claimed): after a turnover of an empty population the recorded
\* survival rate, average fitness and best fitness are 0, and after a
\* turnover with no living organism the averages of the analysis are 0.
C5_EmptyAggregatesAreZero ==
    (lastCall = "update" /\ sim.running /\ sim.generation >= 1 /\ sim.generationTimer = 0)
        => /\ Len(sim.population) = 0 =>
                /\ LastAnalysis.survivalRate = Num(0)
                /\ Last(sim.stats.avgFitness) = Num(0)
                /\ Last(sim.stats.bestFitness) = Num(0)
           /\ NoneAlive(LastAnalysis) =>
                /\ LastAnalysis.avgFitness = 0
                /\ LastAnalysis.avgEnergy = 0
                /\ LastAnalysis.avgAge = 0

\* C7 (as claimed): over a tick a dead organism does not move, change energy
\* or collect food, and an organism that dies in the tick eats nothing in it:
\* its food count is what it was.
C7_DeadOrganismsAreInert ==
    [][ (StepTaken /\ sim'.generation = sim.generation)
          => \A i \in 1..Len(sim.population) :
                /\ ~sim.population[i].alive => sim'.population[i] = sim.population[i]
                /\ (sim.population[i].alive /\ ~sim'.population[i].alive)
                      => sim'.population[i].foodCollected = sim.population[i].foodCollected ]_vars

\* C8: a driven tick ends either without turnover, and then some organism is
\* alive and the timer is below the generation length, or with it, and then
\* the timer had reached the generation length or nobody was left alive;
\* after a turnover the generation is one higher, the timer 0, the food list
\* holds 50 items and every organism is new.
C8_TurnoverInline ==
    [][ (StepTaken /\ sim.running)
          => \/ /\ sim'.generation = sim.generation
                /\ sim'.generationTimer = sim.generationTimer + 1
                /\ sim'.generationTimer < generationLength
                /\ ~allDead(sim'.population)
                /\ SameOrganisms(sim.population, sim'.population)
             \/ /\ sim'.generation = sim.generation + 1
                /\ sim'.generationTimer = 0
                /\ Len(sim'.environment.food) = InitialFoodCount
                /\ FreshPopulation(sim.population, sim'.population)
                /\ \/ sim.generationTimer + 1 >= generationLength
                   \/ NoneAlive(Last(sim'.evolutionIntelligence.generationHistory)) ]_vars

\* A turnover on the generation length, with both organisms alive at it.
C8_Witness ==
    /\ lastCall = "update"
    /\ sim.generation = 1 /\ sim.generationTimer = 0
    /\ Len(sim.population) = 2
    /\ LastAnalysis.survivalRate = Num(1000)
    /\ Len(sim.environment.food) = InitialFoodCount

\* C9: running is one of two values; update() of a paused simulation changes
\* nothing of it; update() of a running one advances one tick: the timer
\* rises by 1 or returns to 0 with the turnover, and short of a turnover
\* every living organism is one tick older.
C9_PausedOrOneTick ==
    /\ [](sim.running \in BOOLEAN)
    /\ [][ StepTaken => IF ~sim.running
                   THEN sim' = sim
                   ELSE /\ sim'.running
                        /\ \/ sim'.generationTimer = sim.generationTimer + 1
                           \/ sim'.generationTimer = 0 /\ sim'.generation = sim.generation + 1
                        /\ sim'.generation = sim.generation =>
                              \A i \in 1..Len(sim.population) :
                                 sim.population[i].alive =>
                                    sim'.population[i].age = sim.population[i].age + 1 ]_vars

\* Two update() calls on a constructed simulation, the first while paused:
\* the timer shows one tick and the organisms are one tick old.
C9_Witness ==
    /\ lastCall = "update" /\ ticks = 2
    /\ sim.running /\ sim.generation = 0 /\ sim.generationTimer = 1
    /\ Len(sim.population) >= 1
    /\ \A i \in 1..Len(sim.population) : sim.population[i].age = 1

\* C10: within a generation an organism that is dead stays dead, whatever is
\* called, and neither a tick nor a global event takes an organism off the list.
C10_DeathIsPermanent ==
    [][ /\ \A i \in 1..Len(sim.population), j \in 1..Len(sim'.population) :
              (~sim.population[i].alive /\ sim'.population[j].id = sim.population[i].id)
                 => ~sim'.population[j].alive
        /\ ((StepTaken \/ EventTaken) /\ sim'.generation = sim.generation)
              => SameOrganisms(sim.population, sim'.population) ]_vars

\* After a tick within the generation a dead organism is on the list beside a
\* living one.
C10_Witness ==
    /\ lastCall = "update" /\ ticks >= 1
    /\ sim.running /\ sim.generation = 0
    /\ \E i, j \in 1..Len(sim.population) :
          ~sim.population[i].alive /\ sim.population[j].alive

\* The transitions that are a reset() call.
ResetTaken == calls' = calls + 1 /\ lastCall' = "reset"

\* C21 (as claimed): after reset() the simulation is like a freshly
\* constructed one of the same size: generation 0, tick counter 0, empty
\* statistics, a fresh all-alive population, the initial food, and both
\* controllers as constructed.
C21_ResetIsFresh ==
    [][ ResetTaken
          => /\ sim'.generation = 0
             /\ sim'.generationTimer = 0
             /\ \A k \in {"avgFitness", "bestFitness", "avgSpeed", "avgVision",
                          "avgSize", "avgEfficiency"} : sim'.stats[k] = <<>>
             /\ FreshPopulation(sim.population, sim'.population)
             /\ Len(sim'.environment.food) = InitialFoodCount
             /\ sim'.evolutionIntelligence = NewEvolutionIntelligence
             /\ sim'.ecosystemIntelligence = NewEcosystemIntelligence ]_vars

PlagueTaken == calls' = calls + 1 /\ lastCall' = "plague"

FeedOrganisms ==
    { [genes |-> BigGenome, x |-> 4000, y |-> MidLine, energy |-> 11000, foodCollected |-> 0,
       age |-> 10, alive |-> TRUE, fitness |-> 0, vx |-> 0, vy |-> 0],
      [genes |-> BigGenome, x |-> 4500, y |-> MidLine, energy |-> 5000, foodCollected |-> 0,
       age |-> 10, alive |-> TRUE, fitness |-> 0, vx |-> 0, vy |-> 0],
      [genes |-> SmallGenome, x |-> 4800, y |-> MidLine, energy |-> 10000, foodCollected |-> 0,
       age |-> 10, alive |-> TRUE, fitness |-> 0, vx |-> 0, vy |-> 0],
      [genes |-> SmallGenome, x |-> 8000, y |-> MidLine, energy |-> 10000, foodCollected |-> 0,
       age |-> 10, alive |-> TRUE, fitness |-> 0, vx |-> 0, vy |-> 0] }

\* Items left at the spot.
FeedCounts == {1, 2, 3}

\* A running simulation early in a generation with little food left.
InitFeed ==
    /\ \E n \in 1..MaxPop, count \in FeedCounts :
          \E orgs \in [1..n -> FeedOrganisms] :
             sim = [NewSimulation(<<>>, <<FoodSpotA>>) EXCEPT
                       !.population = WithIds(orgs),
                       !.running = TRUE,
                       !.generationTimer = 10,
                       !.environment.food = spawnFood(<<>>, count, <<FoodSpotA>>)]
    /\ lastCall = "new"
    /\ ticks = 0
    /\ calls = 0
    /\ gA = MidGenome /\ gB = MidGenome /\ child = MidGenome
    /\ lastOp = "none" /\ ops = 0
    /\ adaptiveWeights = [t \in Traits |-> 100]
    /\ intel = <<>> /\ pe = <<>> /\ LabsIdle

NextFeed ==
    \/ Step
    \/ Start
    \/ Pause

SpecFeed == InitFeed /\ [][NextFeed]_vars

\* The food-collected counters of a population, added up.
TotalFoodCollected(pop) == SumSeq(Map(pop, LAMBDA o : o.foodCollected))

\* The length of the food list once maintainFood has run: the places its
\* items land on do not change their number.
FedCount(env) == Len(maintainFood(env, <<FoodSpotA>>).food)

\* Over a tick within a generation every counter rises by the pickups of its
\* organism, and as many items left the list as the counters rose by.
PickupsBalance ==
    [][ (StepTaken /\ sim.running /\ sim'.generation = sim.generation)
          => /\ \A i \in 1..Len(sim.population) :
                   sim'.population[i].foodCollected >= sim.population[i].foodCollected
             /\ TotalFoodCollected(sim'.population) - TotalFoodCollected(sim.population)
                   = FedCount(sim.environment) - Len(sim'.environment.food) ]_vars

\* A pickup by organism o from the list `food`, with the energy it must leave.
PickupCredits(o, food, energy) ==
    LET r == collectFood(o, food)
    IN  r.food # food =>
           /\ Len(r.food) = Len(food) - 1
           /\ r.org.foodCollected = o.foodCollected + 1
           /\ r.org.energy = energy

\* C25 (amended): each item is consumed at most once: a pickup removes one
\* item and credits one organism in the same operation, food-collected plus
\* 1 and energy plus the item's energy up to the cap of 120, and over every
\* tick the counters rise by exactly the number of items removed.
C25_PickupIsAtomic ==
    /\ PickupsBalance
    /\ [](sim.running =>
            \A i \in 1..Len(sim.population) :
               PickupCredits(sim.population[i], sim.environment.food,
                             Min(sim.population[i].energy + FoodEnergy, EnergyCap)))

\* C25 (as claimed): the pickup credits the organism with its energy plus
\* the item's energy.
C25_PickupAddsItemEnergy ==
    sim.running =>
       \A i \in 1..Len(sim.population) :
          PickupCredits(sim.population[i], sim.environment.food,
                        sim.population[i].energy + FoodEnergy)

\* Two living organisms stood in reach of the only item: one of them ate it
\* and was stopped at the cap, the other got nothing.
C25_Witness ==
    /\ lastCall = "update"
    /\ ticks = 1
    /\ Len(sim.population) = 2
    /\ sim.environment.food = <<>>
    /\ TotalFoodCollected(sim.population) = 1
    /\ \E i \in 1..2 :
          /\ sim.population[i].foodCollected = 1
          /\ sim.population[i].energy = EnergyCap
          /\ sim.population[3 - i].genes = BigGenome
          /\ sim.population[3 - i].alive

\* One Organism.update call on organism o with the list `food`: the items
\* it takes are the ones its counter rises by, two at most, and two only
\* when the immediate-food instinct was the branch taken.
UpdateTakesAtMostTwo(o, food, v) ==
    LET r == Organism_update(o, food, ArenaWidth * 100, ArenaHeight * 100, v)
        taken == Len(food) - Len(r.food)
    IN  /\ taken \in 0..2
        /\ r.org.foodCollected = o.foodCollected + taken
        /\ taken = 2 => /\ o.alive
                        /\ ~exhaustionCritical(o)
                        /\ immediateFood(o, food)

\* C31 (amended): a single Organism.update call removes at most two items
\* from the food list and raises the food-collected counter by the number
\* removed: one in the immediate-food branch and one in the collectFood
\* that ends every update; in the other branches at most one.  Over a tick
\* no counter rises by more than two.
C31_AtMostTwoItemsPerTick ==
    /\ [](sim.running =>
            \A i \in 1..Len(sim.population) : \A v \in Velocities(sim.population[i]) :
               UpdateTakesAtMostTwo(sim.population[i], sim.environment.food, v))
    /\ [][ (StepTaken /\ sim.running /\ sim'.generation = sim.generation) =>
             \A i \in 1..Len(sim.population) :
                /\ sim'.population[i].foodCollected - sim.population[i].foodCollected \in 0..2
                /\ sim'.population[i].foodCollected = sim.population[i].foodCollected + 2
                      => immediateFood(sim.population[i],
                                       maintainFood(sim.environment, <<FoodSpotA>>).food) ]_vars

\* C31 (as claimed): over a tick no organism's food-collected counter rises
\* by more than 1.
C31_OneItemPerTick ==
    [][ (StepTaken /\ sim.running /\ sim'.generation = sim.generation) =>
          \A i \in 1..Len(sim.population) :
             sim'.population[i].foodCollected <= sim.population[i].foodCollected + 1 ]_vars

\* One tick with one organism standing on three items: it has eaten two of
\* them and the third is still there.
C31_Witness ==
    /\ lastCall = "update"
    /\ ticks = 1
    /\ Len(sim.population) = 1
    /\ sim.population[1].foodCollected = 2
    /\ sim.population[1].age = 11
    /\ sim.environment.food = <<FoodSpotA>>

\* ----------------------------------------- the turnover called from the page

\* A simulation picked up late in a generation, running or paused.
InitManual ==
    /\ \E n \in 0..MaxPop, running \in BOOLEAN :
          \E orgs \in [1..n -> LateOrganisms] :
             sim = [NewSimulation(<<>>, <<FoodSpotA>>) EXCEPT
                       !.population = WithIds(orgs),
                       !.running = running,
                       !.generationTimer = generationLength - LateTicks]
    /\ lastCall = "new"
    /\ ticks = 0
    /\ calls = 0
    /\ gA = MidGenome /\ gB = MidGenome /\ child = MidGenome
    /\ lastOp = "none" /\ ops = 0
    /\ adaptiveWeights = [t \in Traits |-> 100]
    /\ intel = <<>> /\ pe = <<>> /\ LabsIdle

\* handleNextGen of the page: simulation.nextGeneration() called directly,
\* whether the simulation runs or not.
HandleNextGen ==
    /\ calls < MaxCalls
    /\ \E spots \in FoodSpotSeqs, draws \in [1..Len(sim.population) -> BreedDraws] :
          sim' = nextGeneration(sim, draws, spots)
    /\ lastCall' = "nextGeneration"
    /\ calls' = calls + 1
    /\ UNCHANGED <<ticks, genomeVars, otherVars>>

NextManual ==
    \/ Step
    \/ Start
    \/ Pause
    \/ HandleNextGen

SpecManual == InitManual /\ [][NextManual]_vars

\* C22 (as claimed): every generation starts with the tick counter at 0,
\* whether the turnover came from the tick loop or from a direct call of
\* nextGeneration().
C22_GenerationStartsAtZero ==
    [][ sim'.generation # sim.generation => sim'.generationTimer = 0 ]_vars

\* ------------------------------------------------ the generation boundary

\* Organisms at the end of a generation: a big and a small one dead, the
\* small one the fitter by 30; and a well-fed living one.
BoundaryOrganisms ==
    { [genes |-> BigGenome, x |-> 2800, y |-> MidLine, energy |-> 0 - 30, foodCollected |-> 0,
       age |-> 500, alive |-> FALSE, fitness |-> 0, vx |-> 0, vy |-> 0],
      [genes |-> SmallGenome, x |-> 8000, y |-> MidLine, energy |-> 0 - 30, foodCollected |-> 3,
       age |-> 500, alive |-> FALSE, fitness |-> 0, vx |-> 200, vy |-> 0],
      [genes |-> SmallGenome, x |-> 8000, y |-> MidLine, energy |-> 8000, foodCollected |-> 2,
       age |-> generationLength - 1, alive |-> TRUE, fitness |-> 0, vx |-> 0, vy |-> 0] }

\* The population of an extinct generation, scored.
ExtinctPair ==
    Map(WithIds(<<CHOOSE o \in BoundaryOrganisms : ~o.alive /\ o.genes = BigGenome,
                  CHOOSE o \in BoundaryOrganisms : ~o.alive /\ o.genes = SmallGenome>>),
        calculateFitness)

\* The controllers after k generations that all ended extinct with that
\* population: every analysis found the same, the competition pressure rose
\* by 0.1 and every weight fell by 0.05 each time.
EvolutionAfter(k) ==
    LET stats == generationStats(ExtinctPair)
        once == updateEnvironmentalPressures(
                    NewEvolutionIntelligence.environmentalPressures, stats)
    IN  [generationHistory |-> [i \in 1..k |-> stats],
         environmentalPressures |->
            IF k = 0 THEN NewEvolutionIntelligence.environmentalPressures
            ELSE [once EXCEPT !.competition = 100 * k],
         traitSuccessRates |->
            [t \in Traits |->
                [i \in 1..Min(k, MaxSuccessRates) |-> stats.traitDistributions[t].correlation]],
         adaptiveWeights |-> [t \in Traits |-> Max(50, 100 - 5 * k)]]

EcosystemAfter(k) ==
    LET before == [i \in 1..Max(0, Min(k, MaxTrendSamples + 1) - 1) |-> 0]
        trends == [i \in 1..Min(k, MaxTrendSamples) |-> 0]
        first == Max(0, k - MaxTrendSamples)
    IN  IF k = 0 THEN NewEcosystemIntelligence
        ELSE [populationTrends |-> trends,
              diversityIndex |-> trends,
              stabilityScore |->
                 [i \in 1..Len(trends) |-> calculateStability([j \in 1..(first + i - 1) |-> 0])],
              ecosystemState |->
                 updateEcosystemState(NewEcosystemIntelligence.ecosystemState, trends,
                                      ecosystemAnalysis(ExtinctPair, <<>>, before, k - 1))]

\* Generations already behind the simulation: five (the competition
\* pressure stands at 0.5) or fifty (the ecosystem windows are full).
PastGenerations == {5, MaxTrendSamples}

\* A running simulation one tick before the end of a generation.
InitBoundary ==
    /\ \E k \in PastGenerations : \E orgs \in [1..MaxPop -> BoundaryOrganisms] :
          sim = [NewSimulation(<<>>, <<FoodSpotA>>) EXCEPT
                    !.population = WithIds(orgs),
                    !.running = TRUE,
                    !.generation = k,
                    !.generationTimer = generationLength - 1,
                    !.evolutionIntelligence = EvolutionAfter(k),
                    !.ecosystemIntelligence = EcosystemAfter(k)]
    /\ lastCall = "new"
    /\ ticks = 0
    /\ calls = 0
    /\ gA = MidGenome /\ gB = MidGenome /\ child = MidGenome
    /\ lastOp = "none" /\ ops = 0
    /\ adaptiveWeights = [t \in Traits |-> 100]
    /\ intel = <<>> /\ pe = <<>> /\ LabsIdle

NextBoundary ==
    \/ Step
    \/ HandleNextGen

SpecBoundary == InitBoundary /\ [][NextBoundary]_vars

TurnoverTaken == sim'.generation = sim.generation + 1
NextGenTaken == calls' = calls + 1 /\ lastCall' = "nextGeneration"

\* A turnover ran each step once: one analysis more in the generation
\* history, which is the one the stats hold; one ecosystem analysis, of the
\* generation that ended; one more fitness record.
EachStepOnce ==
    /\ Len(sim'.evolutionIntelligence.generationHistory)
          = Len(sim.evolutionIntelligence.generationHistory) + 1
    /\ sim'.stats.evolutionAnalysis = Last(sim'.evolutionIntelligence.generationHistory)
    /\ sim'.stats.ecosystemAnalysis.generation = sim.generation
    /\ Last(sim'.ecosystemIntelligence.populationTrends)
          = sim'.stats.ecosystemAnalysis.populationSize
    /\ Len(sim'.stats.avgFitness) = Len(sim.stats.avgFitness) + 1
    /\ Len(sim'.population) = Len(sim.population)

\* The order of a turnover called directly, read from its result: the
\* analysis saw the fitness of every organism, alive or dead, computed anew,
\* and every child was bred from the parents selected with the weights and
\* pressures that analysis left, at the mutation rate adapted to them.
AnalysisBeforeSelection ==
    LET scored == Map(sim.population, calculateFitness)
        ei == sim'.evolutionIntelligence
        survivors == selectParents(SortDesc(scored, LAMBDA o : o.fitness),
                                   ei.adaptiveWeights, ei.environmentalPressures,
                                   sim.selectionPressure)
        rate == getAdaptiveMutationRate(sim.mutationRate, ei.environmentalPressures,
                                        ei.generationHistory)
    IN  /\ ei = analyzeGeneration(sim.evolutionIntelligence, scored)
        /\ \A i \in 1..Len(sim'.population) :
              \E d \in BreedDraws :
                 sim'.population[i]
                    = breed(survivors, ei.adaptiveWeights, rate, d, sim'.population[i].id)

\* C26 (amended): a turnover computes the fitness of all organisms, then
\* runs analyzeGeneration, then analyzeEcosystem, then selects the parents,
\* adapts the mutation rate and breeds, each once, so selection and mutation
\* use the weights and pressures updated from the generation that ended; the
\* generation history grows by one entry, and each ecosystem window takes
\* one entry, growing by one until it holds 50 and then dropping its oldest.
C26_TurnoverOrder ==
    /\ [][ TurnoverTaken =>
             /\ EachStepOnce
             /\ Len(sim'.ecosystemIntelligence.populationTrends)
                   = Min(Len(sim.ecosystemIntelligence.populationTrends) + 1, MaxTrendSamples)
             /\ Len(sim.ecosystemIntelligence.populationTrends) = MaxTrendSamples
                   => SubSeq(sim'.ecosystemIntelligence.populationTrends, 1, MaxTrendSamples - 1)
                         = Tail(sim.ecosystemIntelligence.populationTrends) ]_vars
    /\ [][ NextGenTaken => AnalysisBeforeSelection ]_vars

\* C26 (as claimed): every turnover makes the history of each controller
\* one entry longer.
C26_HistoriesGrowByOne ==
    [][ TurnoverTaken =>
          /\ Len(sim'.evolutionIntelligence.generationHistory)
                = Len(sim.evolutionIntelligence.generationHistory) + 1
          /\ Len(sim'.ecosystemIntelligence.populationTrends)
                = Len(sim.ecosystemIntelligence.populationTrends) + 1 ]_vars

\* The sixth turnover, called directly on two dead organisms: the analysis
\* took the competition pressure from 0.5 to 0.6, and with it the big
\* organism, the less fit of the two, was ranked first and bred the first child.
C26_Witness ==
    /\ lastCall = "nextGeneration"
    /\ sim.generation = 6
    /\ Len(sim.evolutionIntelligence.generationHistory) = 6
    /\ sim.evolutionIntelligence.environmentalPressures.competition = 600
    /\ Len(sim.population) = 2
    /\ sim.population[1].genes = BigGenome
    /\ sim.population[1].x = 2800

\* C27 (as claimed): the starvation and competition pressures are clamped;
\* whatever the number of generations analysed, each stays between 0 and a
\* ceiling, here 1.0, the scale on which selectParents compares them with 0.5.
C27_PressuresClamped ==
    [][ TurnoverTaken =>
          LET p == sim'.evolutionIntelligence.environmentalPressures
          IN  /\ p.starvation >= 0 /\ p.starvation <= 1000
              /\ p.competition >= 0 /\ p.competition <= 1000 ]_vars

\* ------------------------------------------------- a run without food

\* Driven update() calls followed on the arena without food.
MaxStarveTicks == 12

\* BehavioralBrain.evaluateFoodSeeking with no food in sight, * 1000; the
\* critical-energy instinct (energy < 20 * efficiency) triples it.
foodSeekingPriority(o) ==
    LET energyFactor == Max(0, 1000 - o.energy \div 10)
        need == (energyFactor * 6 + 300 * 4) \div 10
        priority == (((need * o.genes.vision) \div 15000) * (200 - o.genes.efficiency)) \div 100
    IN  IF o.energy < 20 * o.genes.efficiency THEN priority * 3 ELSE priority

\* BehavioralBrain.evaluateExploration, * 1000
explorationPriority(o) == (o.energy * (100 - o.genes.efficiency)) \div 2000

\* BehavioralBrain.evaluateEnergyConservation, * 1000; the exhaustion
\* instinct (energy < 10) multiplies it by 5.
energyConservationPriority(o) ==
    LET priority == IF o.energy < 3000 THEN 800
                    ELSE IF o.genes.efficiency > 80 THEN 400 ELSE 200
    IN  IF o.energy < 1000 THEN priority * 5 ELSE priority

\* BehavioralBrain.evaluateBreeding, * 1000, at the age update() has just given
breedingPriority(o) == IF o.energy > 8000 /\ o.age + 1 > 5 THEN 400 ELSE 0

\* behaviors[0] after the sort is energy_conservation: the sort is stable, so
\* it must beat the two behaviours pushed before it and tie at worst with
\* those pushed after it.  Without neighbours the territory and social
\* priorities are 0.
restingLeads(o) ==
    /\ energyConservationPriority(o) > foodSeekingPriority(o)
    /\ energyConservationPriority(o) > explorationPriority(o)
    /\ energyConservationPriority(o) >= breedingPriority(o)

\* The velocity the brain leaves to a lone organism with no food about:
\* executeResting halves it; the other behaviours end in moveTowards or
\* randomWalk, taken here along the x axis at the organism's speed.
StarveVelocities(o) ==
    IF ~o.alive THEN { <<0, 0>> }
    ELSE IF restingLeads(o) THEN { <<Scaled(o.vx, 1, 2), Scaled(o.vy, 1, 2)>> }
    ELSE { <<o.genes.speed, 0>>, <<0 - o.genes.speed, 0>> }

\* Places initializePopulation draws on the middle line.
StarveBirths ==
    { [x |-> x, y |-> MidLine, genes |-> g] : x \in {2800, 5000, 8000}, g \in NewGenomes }

\* A simulation constructed with one organism, started, with the food list
\* emptied and environment.foodAbundance set to 0, so that maintainFood
\* spawns nothing.
InitStarve ==
    /\ \E birth \in StarveBirths :
          sim = [NewSimulation(<<birth>>, <<FoodSpotA>>) EXCEPT
                    !.environment.food = <<>>,
                    !.environment.foodAbundance = 0,
                    !.running = TRUE]
    /\ lastCall = "new"
    /\ ticks = 0
    /\ calls = 0
    /\ gA = MidGenome /\ gB = MidGenome /\ child = MidGenome
    /\ lastOp = "none" /\ ops = 0
    /\ adaptiveWeights = [t \in Traits |-> 100]
    /\ intel = <<>> /\ pe = <<>> /\ LabsIdle

\* One call of simulation.update() by the host loop.
StarveStep ==
    /\ ticks < MaxStarveTicks
    /\ \E v \in StarveVelocities(sim.population[1]) :
          \E draws \in BreedDrawsFor(sim, generationEnds(tick(sim, <<v>>, <<FoodSpotA>>))) :
              sim' = Simulation_update(sim, <<v>>, draws, <<FoodSpotA>>)
    /\ lastCall' = "update"
    /\ ticks' = ticks + 1
    /\ UNCHANGED <<calls, genomeVars, otherVars>>

NextStarve == StarveStep

SpecStarve == InitStarve /\ [][NextStarve]_vars

\* C12 (as claimed): on an arena with no food and no replenishment, every
\* tick strictly lowers the energy of every living organism.
C12_StarvingEnergyFalls ==
    [][ (StepTaken /\ sim.running /\ sim.environment.food = <<>>
            /\ sim.environment.foodAbundance = 0 /\ sim'.generation = sim.generation)
          => \A i \in 1..Len(sim.population) :
                sim.population[i].alive
                   => sim'.population[i].energy < sim.population[i].energy ]_vars

\* ------------------------------------------- the controllers, stand-alone

\* Controller calls followed on one population.
MaxIntelCalls == 2

\* Numbers of living organisms in the populations analysed.
AliveCounts == {0, 1, 4, 6}

\* Population samples already recorded when the analysis is called.
TrendHistories == { <<>>, <<3>>, <<0, 0>>, <<3, 4>>, <<10, 4>>, <<4, 4, 4>> }

PopulationAt(k, d) ==
    [i \in 1..(k + d) |->
        [NewOrganism(i, 2800, MidLine, IF i % 2 = 1 THEN BigGenome ELSE SmallGenome)
            EXCEPT !.alive = (i <= k),
                   !.energy = IF i <= k THEN 5000 ELSE 0,
                   !.age = 100,
                   !.fitness = 1000 * i]]

\* The adaptive weights as constructed, and as eighteen generations in which
\* efficiency went with survival have left them (0.05 a generation).
IntelWeights ==
    { [t \in Traits |-> 100],
      [t \in Traits |-> IF t = "efficiency" THEN 190 ELSE 100] }

InitIntel ==
    /\ \E k \in AliveCounts, d \in 0..1, trends \in TrendHistories,
          pressure \in {0, 500, 1000}, weights \in IntelWeights :
          intel = [population |-> PopulationAt(k, d),
                   selectionPressure |-> pressure,
                   ei |-> [NewEvolutionIntelligence EXCEPT !.adaptiveWeights = weights],
                   eco |-> [NewEcosystemIntelligence EXCEPT
                               !.populationTrends = trends,
                               !.diversityIndex = [i \in 1..Len(trends) |-> 0],
                               !.stabilityScore = [i \in 1..Len(trends) |-> 0]],
                   survivors |-> <<>>,
                   analysis |-> Null,
                   call |-> "none",
                   n |-> 0]
    /\ sim = <<>> /\ lastCall = "none" /\ ticks = 0 /\ calls = 0
    /\ gA = MidGenome /\ gB = MidGenome /\ child = MidGenome
    /\ lastOp = "none" /\ ops = 0
    /\ adaptiveWeights = [t \in Traits |-> 100]
    /\ pe = <<>> /\ LabsIdle

CallSelectParents ==
    /\ intel.n < MaxIntelCalls
    /\ intel' = [intel EXCEPT
                    !.survivors = selectParents(intel.population, intel.ei.adaptiveWeights,
                                                intel.ei.environmentalPressures,
                                                intel.selectionPressure),
                    !.call = "selectParents",
                    !.n = @ + 1]
    /\ UNCHANGED <<genomeVars, simVars, pe, labVars>>

CallAnalyzeEcosystem ==
    /\ intel.n < MaxIntelCalls
    /\ LET r == analyzeEcosystem(intel.eco, intel.population, <<>>, intel.n)
       IN  intel' = [intel EXCEPT
                        !.eco = r.eco,
                        !.analysis = r.analysis,
                        !.call = "analyzeEcosystem",
                        !.n = @ + 1]
    /\ UNCHANGED <<genomeVars, simVars, pe, labVars>>

CallAnalyzeGeneration ==
    /\ intel.n < MaxIntelCalls
    /\ intel' = [intel EXCEPT
                    !.ei = analyzeGeneration(intel.ei, intel.population),
                    !.call = "analyzeGeneration",
                    !.n = @ + 1]
    /\ UNCHANGED <<genomeVars, simVars, pe, labVars>>

\* triggerEvent(eventType) on the population and the controller, for the
\* events that touch either; the food list is not followed here.
IntelEvents == {"meteor", "ice-age", "plague"}

CallTriggerEvent ==
    /\ intel.n < MaxIntelCalls
    /\ \E eventType \in IntelEvents :
       \E indices \in [1..killCount(intel.population) -> 1..Len(intel.population)] :
          LET s == [population |-> intel.population,
                    evolutionIntelligence |-> intel.ei,
                    environment |-> [food |-> <<>>]]
              r == triggerEvent(s, eventType, indices, <<>>)
          IN  intel' = [intel EXCEPT
                           !.population = r.population,
                           !.ei = r.evolutionIntelligence,
                           !.call = eventType,
                           !.n = @ + 1]
    /\ UNCHANGED <<genomeVars, simVars, pe, labVars>>

NextIntel ==
    \/ CallSelectParents
    \/ CallAnalyzeEcosystem
    \/ CallAnalyzeGeneration
    \/ CallTriggerEvent

SpecIntel == InitIntel /\ [][NextIntel]_vars

\* C2 (as claimed): selectParents returns at least 2 organisms for every
\* population size, sizes 0 and 1 included, and every pressure in [0, 1].
C2_SelectParentsAtLeastTwo ==
    intel.call = "selectParents" => Len(intel.survivors) >= 2

\* C4 (as claimed): after every analyzeEcosystem call that sees fewer than 5
\* living organisms the phase is 'crisis', whatever samples were recorded before.
C4_FewAliveIsCrisis ==
    (intel.call = "analyzeEcosystem" /\ intel.analysis.populationSize < 5)
        => intel.eco.ecosystemState.phase = "crisis"

\* C11 (as claimed): after any sequence of generation analyses and global
\* events every adaptive trait weight is within [0.5, 2.0].
C11_WeightsStayClamped ==
    \A t \in Traits :
        50 <= intel.ei.adaptiveWeights[t] /\ intel.ei.adaptiveWeights[t] <= 200

\* The transitions that are triggerEvent('meteor') on the controllers' population.
MeteorTaken == intel'.n = intel.n + 1 /\ intel'.call = "meteor"

NumAlive(pop) == Cardinality({ i \in 1..Len(pop) : pop[i].alive })

C20_AllAliveNoDeaths ==
    (intel.call = "analyzeGeneration" /\ Len(intel.population) > 0
        /\ \A i \in 1..Len(intel.population) : intel.population[i].alive)
        => LET stats == Last(intel.ei.generationHistory)
           IN  /\ stats.survivalRate = Num(1000)
               /\ \A c \in {"starvation", "exhaustion", "inefficiency", "unknown"} :
                     stats.deathCauses[c] = 0

\* The analysis of six living organisms, among them organisms of efficiency
\* 0.5 and of energy 50.
C20_Witness ==
    /\ intel.call = "analyzeGeneration" /\ intel.n = 1
    /\ Len(intel.population) = 6
    /\ \A i \in 1..6 : intel.population[i].alive
    /\ Len(intel.ei.generationHistory) = 1
    /\ intel.ei.generationHistory[1].survivalRate = Num(1000)

\* ------------------------------------ the adaptive mutation rate, stand-alone

\* getAdaptiveMutationRate calls followed on one controller.
MaxRateCalls == 1

\* Generation histories: none, four, five or six analyses of one population,
\* all of whose organisms, most, half or none survived, or which was empty;
\* and four good generations followed by an extinction.
RateHistories ==
    { [i \in 1..m |-> generationStats(PopulationAt(kd[1], kd[2]))] :
         m \in {0, 4, 5, 6}, kd \in { <<6, 0>>, <<4, 1>>, <<1, 1>>, <<0, 1>>, <<0, 0>> } }
    \cup { [i \in 1..5 |-> generationStats(PopulationAt(IF i < 5 THEN 6 ELSE 0, 1))] }

\* Base rates (the mutationRate slider, * 1000) and instability pressures (* 1000).
BaseRates == {0, 10, 100, 333, 1000}
Instabilities == {0, 1, 333, 1000, 2500}

InitRate ==
    /\ \E history \in RateHistories :
          rateLab = [ei |-> [NewEvolutionIntelligence EXCEPT !.generationHistory = history],
                     baseRate |-> 0, low |-> 0, high |-> 0, atLow |-> 0, atHigh |-> 0,
                     call |-> "none", n |-> 0]
    /\ sim = <<>> /\ lastCall = "none" /\ ticks = 0 /\ calls = 0
    /\ gA = MidGenome /\ gB = MidGenome /\ child = MidGenome
    /\ lastOp = "none" /\ ops = 0
    /\ adaptiveWeights = [t \in Traits |-> 100]
    /\ intel = <<>> /\ pe = <<>> /\ org = <<>> /\ prey = <<>>

\* getAdaptiveMutationRate(baseRate) called on the controller twice, under
\* two instability pressures and the same history.
CallGetAdaptiveMutationRate ==
    /\ rateLab.n < MaxRateCalls
    /\ \E baseRate \in BaseRates, low \in Instabilities, high \in Instabilities :
          LET under(i) == [rateLab.ei.environmentalPressures EXCEPT !.instability = i]
          IN  rateLab' = [rateLab EXCEPT
                             !.baseRate = baseRate,
                             !.low = low,
                             !.high = high,
                             !.atLow = getAdaptiveMutationRate(baseRate, under(low),
                                                               rateLab.ei.generationHistory),
                             !.atHigh = getAdaptiveMutationRate(baseRate, under(high),
                                                                rateLab.ei.generationHistory),
                             !.call = "getAdaptiveMutationRate",
                             !.n = @ + 1]
    /\ UNCHANGED <<genomeVars, simVars, intel, pe, org, prey>>

NextRate == CallGetAdaptiveMutationRate

SpecRate == InitRate /\ [][NextRate]_vars

\* C19: for a base rate >= 0 and one generation history, the rate returned
\* under a higher instability pressure is never below the rate returned
\* under a lower one.
C19_RateRisesWithInstability ==
    (rateLab.call = "getAdaptiveMutationRate" /\ rateLab.baseRate >= 0
        /\ rateLab.low <= rateLab.high)
        => rateLab.atLow <= rateLab.atHigh

\* Five successful generations: the rate is reduced under both pressures,
\* and still higher under the higher one.
C19_Witness ==
    /\ rateLab.call = "getAdaptiveMutationRate"
    /\ Len(rateLab.ei.generationHistory) >= 5
    /\ rateLab.baseRate = 100 /\ rateLab.low = 0 /\ rateLab.high = 1000
    /\ rateLab.atLow = 70 /\ rateLab.atHigh = 105

\* ------------------------------- gene editing (src/src/SimulationEngine.js)

\* Calls followed on the edited organisms.
MaxEdits == 2

\* The seven genes of the engine that has editGene.
EditTraits == Traits \cup {"aggression", "dietType", "mutationStability"}

EditTraitMin ==
    [t \in EditTraits |->
        CASE t = "aggression" -> 0 [] t = "dietType" -> 0
          [] t = "mutationStability" -> 30 [] OTHER -> TraitMin[t]]

EditTraitMax ==
    [t \in EditTraits |->
        CASE t = "aggression" -> 1000 [] t = "dietType" -> 100
          [] t = "mutationStability" -> 100 [] OTHER -> TraitMax[t]]

EditTraitRange ==
    [t \in EditTraits |->
        CASE t = "aggression" -> 1000 [] t = "dietType" -> 100
          [] t = "mutationStability" -> 50 [] OTHER -> TraitRange[t]]

\* Genome.mutate(mutationRate) of that engine: the rate is scaled by the
\* stability once, and each gene is clamped to both ends of its domain.
Genome7_mutate(genes, rate, draws) ==
    LET effectiveMutationRate == (rate * (200 - genes.mutationStability)) \div 100
    IN  [t \in EditTraits |->
            IF draws[t].test < effectiveMutationRate
            THEN Max(EditTraitMin[t],
                     Min(EditTraitMax[t],
                         genes[t] + MutationChange(EditTraitRange[t], draws[t].change)))
            ELSE genes[t]]

\* editGene without its test of organism.alive
editGene_editsDead(o, geneName, value) ==
    IF o = Null THEN [org |-> o, returned |-> FALSE]
    ELSE LET edited == [o.genes EXCEPT ![geneName] = value]
         IN  [org |-> [o EXCEPT !.genes =
                          [edited EXCEPT !.mutationStability = (@ * 8) \div 10]],
              returned |-> TRUE]

\* Simulation.editGene(organism, geneName, value): the new organism, and
\* the value returned; Null is the organism not given
editGene(o, geneName, value) ==
    IF o = Null \/ ~o.alive THEN [org |-> o, returned |-> FALSE]
    ELSE LET edited == [o.genes EXCEPT ![geneName] = value]
         IN  [org |-> [o EXCEPT !.genes =
                          [edited EXCEPT !.mutationStability = (@ * 8) \div 10]],
              returned |-> TRUE]

\* case 'ice-age' of that engine's triggerEvent
iceAge(pop) ==
    [i \in 1..Len(pop) |-> [pop[i] EXCEPT !.genes.efficiency = (@ * 7) \div 10]]

\* A genome as constructed, and one that mutation has carried near the low
\* ends of the domains.
FreshGenome7 ==
    [speed |-> 300, vision |-> 10000, size |-> 1000, efficiency |-> 90,
     aggression |-> 500, dietType |-> 50, mutationStability |-> 80]
DriftedGenome7 ==
    [speed |-> 60, vision |-> 3000, size |-> 300, efficiency |-> 40,
     aggression |-> 0, dietType |-> 0, mutationStability |-> 35]

EditOrganisms ==
    { [genes |-> g, alive |-> a] : g \in {FreshGenome7, DriftedGenome7}, a \in BOOLEAN }

\* Values the editor is given for a gene: inside its domain, and far above it.
EditValues(t) == { EditTraitMin[t], (EditTraitMin[t] + EditTraitMax[t]) \div 2, EditTraitMax[t] * 5 }

EditDraws ==
    { [t \in EditTraits |-> [test |-> 0, change |-> c]] : c \in {100, 900} }

InDomain7(genes) ==
    \A t \in EditTraits : EditTraitMin[t] <= genes[t] /\ genes[t] <= EditTraitMax[t]

InitEdit ==
    /\ \E n \in 1..2 : \E pop \in [1..n -> EditOrganisms] :
          pe = [population |-> pop, call |-> "none", returned |-> FALSE, target |-> 0,
                gene |-> "none", value |-> 0, n |-> 0]
    /\ sim = <<>> /\ lastCall = "none" /\ ticks = 0 /\ calls = 0
    /\ gA = MidGenome /\ gB = MidGenome /\ child = MidGenome
    /\ lastOp = "none" /\ ops = 0
    /\ adaptiveWeights = [t \in Traits |-> 100]
    /\ intel = <<>> /\ LabsIdle

EditGene ==
    /\ pe.n < MaxEdits
    /\ \E i \in 0..Len(pe.population), t \in EditTraits :
       \E value \in EditValues(t) :
          LET r == editGene(IF i = 0 THEN Null ELSE pe.population[i], t, value)
          IN  pe' = [pe EXCEPT !.population =
                                  IF i = 0 THEN @ ELSE [@ EXCEPT ![i] = r.org],
                               !.returned = r.returned,
                               !.target = i,
                               !.gene = t,
                               !.value = value,
                               !.call = "editGene",
                               !.n = @ + 1]
    /\ UNCHANGED <<genomeVars, simVars, intel, labVars>>

IceAge ==
    /\ pe.n < MaxEdits
    /\ pe' = [pe EXCEPT !.population = iceAge(@), !.call = "ice-age", !.n = @ + 1]
    /\ UNCHANGED <<genomeVars, simVars, intel, labVars>>

\* mutateOrganism(organism, 0.5)
MutateEdited ==
    /\ pe.n < MaxEdits
    /\ \E i \in 1..Len(pe.population), draws \in EditDraws :
          pe' = [pe EXCEPT !.population[i].genes = Genome7_mutate(@, 500, draws),
                           !.target = i,
                           !.call = "mutateOrganism",
                           !.n = @ + 1]
    /\ UNCHANGED <<genomeVars, simVars, intel, labVars>>

NextEdit ==
    \/ EditGene
    \/ IceAge
    \/ MutateEdited

SpecEdit == InitEdit /\ [][NextEdit]_vars

\* C6 (as claimed): after editGene with any value, and after any number of
\* ice ages, every trait of every organism is inside its domain,
\* mutationStability and efficiency included.
C6_EditedTraitsInDomain ==
    pe.call \in {"editGene", "ice-age"} =>
        \A i \in 1..Len(pe.population) : InDomain7(pe.population[i].genes)

EditTaken == pe'.n = pe.n + 1 /\ pe'.call = "editGene"

\* The edited organism differs from the one before in its genes only, and
\* there in the edited gene and in mutationStability only.
OnlyEdited(before, after, geneName) ==
    /\ [after EXCEPT !.genes = before.genes] = before
    /\ \A u \in EditTraits \ {geneName, "mutationStability"} :
          after.genes[u] = before.genes[u]

\* C28 (amended): editGene(organism, trait, value) without an organism or
\* on a dead one returns false and changes nothing.  On a living organism it
\* returns true and changes that organism's genes only: a trait other than
\* mutationStability is set to the value and mutationStability is
\* multiplied by 0.8; when the trait is mutationStability itself it ends at
\* 0.8 times the value given, not at the value.
C28_EditGeneOutcome ==
    [][ EditTaken =>
          LET i == pe'.target
              t == pe'.gene
              v == pe'.value
          IN  IF i = 0 \/ ~pe.population[i].alive
              THEN /\ pe'.returned = FALSE
                   /\ pe'.population = pe.population
              ELSE /\ pe'.returned = TRUE
                   /\ \A j \in 1..Len(pe.population) :
                         j # i => pe'.population[j] = pe.population[j]
                   /\ Len(pe'.population) = Len(pe.population)
                   /\ OnlyEdited(pe.population[i], pe'.population[i], t)
                   /\ IF t = "mutationStability"
                      THEN pe'.population[i].genes[t] = (v * 8) \div 10
                      ELSE /\ pe'.population[i].genes[t] = v
                           /\ pe'.population[i].genes.mutationStability
                                 = (pe.population[i].genes.mutationStability * 8) \div 10 ]_vars

\* C28 (as claimed): on a living organism editGene sets the trait to the
\* value and multiplies mutationStability by 0.8, whatever the trait.
C28_EditSetsTheValue ==
    [][ EditTaken /\ pe'.target # 0 /\ pe'.returned =>
          LET before == pe.population[pe'.target]
              after == pe'.population[pe'.target]
          IN  /\ after.genes[pe'.gene] = pe'.value
              /\ after.genes.mutationStability
                    = (before.genes.mutationStability * 8) \div 10 ]_vars

\* mutationStability of a fresh living organism edited to 0.65: the call
\* returned true and the gene stands at 0.52.
C28_Witness ==
    /\ pe.call = "editGene"
    /\ pe.returned = TRUE
    /\ pe.gene = "mutationStability"
    /\ pe.value = 65
    /\ pe.target = 1
    /\ pe.population[1].alive
    /\ pe.population[1].genes = [FreshGenome7 EXCEPT !.mutationStability = 52]

\* ------------------------- energy in the engine with predation (same file)

\* Driven update() calls and other calls followed on the hunting ground.
MaxPreyTicks == 2
MaxPreyCalls == 1

\* new Organism(x, y, genome) of that engine; kills is created by the first kill
NewOrganism7(x, y, genes) ==
    [genes |-> genes, x |-> x, y |-> y, energy |-> InitialEnergy, foodCollected |-> 0,
     age |-> 0, alive |-> TRUE, vx |-> 0, vy |-> 0, kills |-> 0]

SquaredDistance(o, target) ==
    (target.x - o.x) * (target.x - o.x) + (target.y - o.y) * (target.y - o.y)

\* The index the search loops of findNearestPrey and findNearestFood end
\* with: the first of the nearest candidates closer than the vision, 0 for null.
nearestOf(o, seq, candidates) ==
    LET seen == { i \in candidates :
                     SquaredDistance(o, seq[i]) < o.genes.vision * o.genes.vision }
    IN  IF seen = {} THEN 0
        ELSE CHOOSE i \in seen :
                \A j \in seen :
                   \/ SquaredDistance(o, seq[i]) < SquaredDistance(o, seq[j])
                   \/ SquaredDistance(o, seq[i]) = SquaredDistance(o, seq[j]) /\ i <= j

\* Organism.findNearestPrey(organisms): living, not itself, not more than
\* 1.2 times its size
findNearestPrey(pop, i) ==
    nearestOf(pop[i], pop,
              { j \in 1..Len(pop) :
                   j # i /\ pop[j].alive /\ pop[j].genes.size * 10 <= pop[i].genes.size * 12 })

findNearestFood(o, food) == nearestOf(o, food, 1..Len(food))

\* Organism.moveTowards(target), for a target on the organism's own line
moveTowards(o, target) ==
    IF target.x = o.x THEN o
    ELSE [o EXCEPT !.vx = IF target.x > o.x THEN o.genes.speed ELSE 0 - o.genes.speed,
                   !.vy = 0]

\* Organism.randomWalk(): r is the Math.random() result for x, the one for y
\* being 0.5; the speed limit then acts on x alone.
randomWalk(o, r) ==
    LET vx == o.vx + ((r - 500) * 50) \div 1000
    IN  [o EXCEPT !.vx = Max(0 - o.genes.speed, Min(o.genes.speed, vx))]

\* attackOrganism as it would be if a tie of the powers were a win.
attackOrganism_tieWins(o, target) ==
    LET reach == o.genes.size + target.genes.size
        attackPower == o.genes.size * (1000 + o.genes.aggression)
        defensePower == target.genes.size * (1000 + target.genes.speed)
    IN  IF ~o.alive \/ ~target.alive \/ SquaredDistance(o, target) > reach * reach
           \/ ~(attackPower >= defensePower)
        THEN [org |-> o, target |-> target]
        ELSE [org |-> [o EXCEPT !.energy = @ + target.energy \div 2, !.kills = @ + 1],
              target |-> [target EXCEPT !.alive = FALSE]]

\* Organism.attackOrganism(target): the attacker and the target afterwards
attackOrganism(o, target) ==
    LET reach == o.genes.size + target.genes.size
        attackPower == o.genes.size * (1000 + o.genes.aggression)
        defensePower == target.genes.size * (1000 + target.genes.speed)
    IN  IF ~o.alive \/ ~target.alive \/ SquaredDistance(o, target) > reach * reach
           \/ ~(attackPower > defensePower)
        THEN [org |-> o, target |-> target]
        ELSE [org |-> [o EXCEPT !.energy = @ + target.energy \div 2, !.kills = @ + 1],
              target |-> [target EXCEPT !.alive = FALSE]]

\* Organism.collectFood(environment) of that engine: no cap on the energy
collectFood7(o, food) ==
    LET reach == { i \in 1..Len(food) : WithinDistance(o, food[i], o.genes.size) }
    IN  IF reach = {}
        THEN [org |-> o, food |-> food]
        ELSE LET i == CHOOSE k \in reach : \A j \in reach : j <= k
             IN  [org  |-> [o EXCEPT !.energy = o.energy + FoodEnergy,
                                     !.foodCollected = o.foodCollected + 1],
                  food |-> RemoveAt(food, i)]

\* movementCost * deltaTime * 0.1 of that engine, with the aggression factor
\* 1 + aggression / 20; at the neutral temperature 20 the stress term is 0.
movementCost7(o) ==
    LET plain == ((Abs(o.vx) + Abs(o.vy)) * o.genes.size) \div (100 * o.genes.efficiency)
    IN  (plain * (2000 + o.genes.aggression)) \div 2000

\* Organism.update without `if (!this.alive) return`.
Organism7_update_actsDead(pop, food, width, i, r) ==
      LET aged == [pop[i] EXCEPT !.age = @ + 1]
          isCarnivore == aged.genes.dietType > 60
          isAggressive == aged.genes.aggression > 500
          nearestPrey == IF isCarnivore \/ isAggressive THEN findNearestPrey(pop, i) ELSE 0
          nearestFood == findNearestFood(aged, food)
          hunt == attackOrganism(moveTowards(aged, pop[nearestPrey]), pop[nearestPrey])
          decided == IF nearestPrey # 0 THEN hunt.org
                     ELSE IF nearestFood # 0 THEN moveTowards(aged, food[nearestFood])
                     ELSE randomWalk(aged, r)
          others == IF nearestPrey # 0 THEN [pop EXCEPT ![nearestPrey] = hunt.target] ELSE pop
          moved == [decided EXCEPT !.x = (decided.x + decided.vx + width) % width]
          spent == [moved EXCEPT !.energy = @ - movementCost7(moved)]
          fed == collectFood7(deathCheck(spent), food)
      IN  [population |-> [others EXCEPT ![i] = fed.org], food |-> fed.food]

\* Organism.update(environment, 1, allOrganisms) for organism i: the
\* population and the food afterwards.
Organism7_update(pop, food, width, i, r) ==
    IF ~pop[i].alive THEN [population |-> pop, food |-> food]
    ELSE
      LET aged == [pop[i] EXCEPT !.age = @ + 1]
          isCarnivore == aged.genes.dietType > 60
          isAggressive == aged.genes.aggression > 500
          nearestPrey == IF isCarnivore \/ isAggressive THEN findNearestPrey(pop, i) ELSE 0
          nearestFood == findNearestFood(aged, food)
          hunt == attackOrganism(moveTowards(aged, pop[nearestPrey]), pop[nearestPrey])
          decided == IF nearestPrey # 0 THEN hunt.org
                     ELSE IF nearestFood # 0 THEN moveTowards(aged, food[nearestFood])
                     ELSE randomWalk(aged, r)
          others == IF nearestPrey # 0 THEN [pop EXCEPT ![nearestPrey] = hunt.target] ELSE pop
          moved == [decided EXCEPT !.x = (decided.x + decided.vx + width) % width]
          spent == [moved EXCEPT !.energy = @ - movementCost7(moved)]
          fed == collectFood7(deathCheck(spent), food)
      IN  [population |-> [others EXCEPT ![i] = fed.org], food |-> fed.food]

\* The organism loop of Simulation.update()
RECURSIVE updateOrganisms7(_, _, _, _, _)
updateOrganisms7(pop, food, width, rs, i) ==
    IF i > Len(pop) THEN [population |-> pop, food |-> food]
    ELSE LET r == Organism7_update(pop, food, width, i, rs[i])
         IN  updateOrganisms7(r.population, r.food, width, rs, i + 1)

\* Genomes of the seven-gene constructor: a hunter and a grazer.
HunterGenome7 ==
    [speed |-> 300, vision |-> 10000, size |-> 1500, efficiency |-> 90,
     aggression |-> 800, dietType |-> 80, mutationStability |-> 80]
GrazerGenome7 ==
    [speed |-> 200, vision |-> 5000, size |-> 600, efficiency |-> 90,
     aggression |-> 100, dietType |-> 20, mutationStability |-> 80]

\* Populations and food as the constructor may place them, all on the middle line.
PreyPopulations ==
    { <<NewOrganism7(2800, MidLine, GrazerGenome7)>> }
    \cup { <<NewOrganism7(2800, MidLine, HunterGenome7), NewOrganism7(xg, MidLine, GrazerGenome7)>> :
              xg \in {3000, 6000} }
    \cup { <<NewOrganism7(xg, MidLine, GrazerGenome7), NewOrganism7(2800, MidLine, HunterGenome7)>> :
              xg \in {3000, 6000} }

PreyFood ==
    { <<>>, <<Food(3000, MidLine)>>, <<Food(3000, MidLine), Food(3200, MidLine)>>,
      <<Food(3200, MidLine), Food(3400, MidLine), Food(3600, MidLine)>> }

InitPrey ==
    /\ \E pop \in PreyPopulations, food \in PreyFood :
          prey = [population |-> pop, food |-> food, width |-> ArenaWidth * 100,
                  call |-> "new", ticks |-> 0, n |-> 0]
    /\ sim = <<>> /\ lastCall = "none" /\ ticks = 0 /\ calls = 0
    /\ gA = MidGenome /\ gB = MidGenome /\ child = MidGenome
    /\ lastOp = "none" /\ ops = 0
    /\ adaptiveWeights = [t \in Traits |-> 100]
    /\ intel = <<>> /\ pe = <<>> /\ rateLab = <<>> /\ org = <<>>

\* One update() of the running simulation within a generation: the food is
\* replenished (maintainFood is the same code in both engines), every
\* organism is updated in list order, and somebody is alive at the end.
PreyUpdate ==
    /\ prey.ticks < MaxPreyTicks
    /\ \E rs \in [1..Len(prey.population) -> {0, 900}] :
          LET fed == maintainFood([food |-> prey.food, foodAbundance |-> 50], <<FoodSpotA>>)
              r == updateOrganisms7(prey.population, fed.food, prey.width, rs, 1)
          IN  /\ ~allDead(r.population)
              /\ prey' = [prey EXCEPT !.population = r.population,
                                      !.food = r.food,
                                      !.call = "update",
                                      !.ticks = @ + 1]
    /\ UNCHANGED <<genomeVars, simVars, intel, pe, rateLab, org>>

\* cloneOrganism(organism): the clone starts with energy 100
PreyClone ==
    /\ prey.n < MaxPreyCalls
    /\ \E i \in 1..Len(prey.population) :
          prey' = [prey EXCEPT
                      !.population = Append(@, NewOrganism7(prey.population[i].x,
                                                            prey.population[i].y,
                                                            prey.population[i].genes)),
                      !.call = "cloneOrganism",
                      !.n = @ + 1]
    /\ UNCHANGED <<genomeVars, simVars, intel, pe, rateLab, org>>

\* triggerEvent('plague')
PreyPlague ==
    /\ prey.n < MaxPreyCalls
    /\ prey' = [prey EXCEPT
                   !.population = [i \in 1..Len(@) |-> [@[i] EXCEPT !.energy = Max(1000, @ \div 2)]],
                   !.call = "plague",
                   !.n = @ + 1]
    /\ UNCHANGED <<genomeVars, simVars, intel, pe, rateLab, org>>

NextPrey ==
    \/ PreyUpdate
    \/ PreyClone
    \/ PreyPlague

SpecPrey == InitPrey /\ [][NextPrey]_vars

\* C18 (as claimed): in every reachable state the energy of every organism
\* is at most 120, whatever it ate, killed or was cloned from.
C18_EnergyAtMostCap ==
    \A i \in 1..Len(prey.population) : prey.population[i].energy <= EnergyCap

\* ------------------------------------------------ predation (same engine)

\* A predator by aggression alone, and a target whose defence power equals
\* the hunter's attack power: 18 * (1 + 5/10) = 15 * (1 + 8/10).
BrawlerGenome7 ==
    [speed |-> 300, vision |-> 10000, size |-> 1500, efficiency |-> 90,
     aggression |-> 800, dietType |-> 20, mutationStability |-> 80]
MatchGenome7 ==
    [speed |-> 500, vision |-> 5000, size |-> 1800, efficiency |-> 90,
     aggression |-> 100, dietType |-> 20, mutationStability |-> 80]

\* An organism some way into a generation, alive or not.
Organism7At(x, genes, energy, alive) ==
    [NewOrganism7(x, MidLine, genes) EXCEPT !.energy = energy, !.alive = alive, !.age = 10]

\* The first organism of a pair, at x = 28: hunters fresh, hungry and dead, a
\* brawler and a grazer.
HuntFirsts ==
    { Organism7At(2800, HunterGenome7, 10000, TRUE),
      Organism7At(2800, HunterGenome7, 3000, TRUE),
      Organism7At(2800, HunterGenome7, 0 - 30, FALSE),
      Organism7At(2800, BrawlerGenome7, 10000, TRUE),
      Organism7At(2800, GrazerGenome7, 10000, TRUE) }

\* The second: touching, at the end of the hunter's reach of a grazer
\* (15 + 6 = 21 away), or in sight and out of reach; alive or dead.
HuntSeconds ==
    { Organism7At(x, genes, state.energy, state.alive) :
         x \in {3000, 4900, 6200}, genes \in {GrazerGenome7, MatchGenome7},
         state \in { [energy |-> 10000, alive |-> TRUE], [energy |-> 5100, alive |-> TRUE],
                     [energy |-> 4000, alive |-> FALSE] } }

HuntPopulations ==
    { <<a, b>> : a \in HuntFirsts, b \in HuntSeconds }
    \cup { <<b, a>> : a \in HuntFirsts, b \in HuntSeconds }

InitHunt ==
    /\ \E pop \in HuntPopulations :
          prey = [population |-> pop, food |-> <<Food(3000, MidLine)>>,
                  width |-> ArenaWidth * 100,
                  call |-> "new", ticks |-> 0, n |-> 0, actor |-> 0, target |-> 0]
    /\ sim = <<>> /\ lastCall = "none" /\ ticks = 0 /\ calls = 0
    /\ gA = MidGenome /\ gB = MidGenome /\ child = MidGenome
    /\ lastOp = "none" /\ ops = 0
    /\ adaptiveWeights = [t \in Traits |-> 100]
    /\ intel = <<>> /\ pe = <<>> /\ rateLab = <<>> /\ org = <<>>

\* attacker.attackOrganism(target) on its own, for any two organisms
CallAttackOrganism ==
    /\ prey.n < MaxPreyCalls
    /\ \E i \in 1..Len(prey.population), j \in 1..Len(prey.population) :
          /\ i # j
          /\ LET r == attackOrganism(prey.population[i], prey.population[j])
             IN  prey' = [prey EXCEPT
                             !.population = [@ EXCEPT ![i] = r.org, ![j] = r.target],
                             !.call = "attackOrganism",
                             !.n = @ + 1,
                             !.actor = i,
                             !.target = j]
    /\ UNCHANGED <<genomeVars, simVars, intel, pe, rateLab, org>>

NextHunt ==
    \/ PreyUpdate
    \/ CallAttackOrganism

SpecHunt == InitHunt /\ [][NextHunt]_vars

AttackTaken == prey'.n = prey.n + 1 /\ prey'.call = "attackOrganism"
PreyTickTaken == prey'.ticks = prey.ticks + 1

InContact(a, t) ==
    SquaredDistance(a, t) <= (a.genes.size + t.genes.size) * (a.genes.size + t.genes.size)

Overpowers(a, t) ==
    a.genes.size * (1000 + a.genes.aggression) > t.genes.size * (1000 + t.genes.speed)

IsPredator(o) == o.genes.dietType > 60 \/ o.genes.aggression > 500

\* C23: an attack of a living organism on a living target in contact kills
\* the target iff size * (1 + aggression/10) of the attacker exceeds
\* size * (1 + speed/10) of the target; the winner gains half the target's
\* energy and one kill, and nothing else changes; a lost or out-of-reach
\* attack, and one by or on a dead organism, changes nothing.  In a tick a
\* dead organism is left as it was, only living predators gain kills, and
\* the prey an organism finds is never itself and never dead.
C23_AttackOutcome ==
    /\ [][ AttackTaken =>
             LET i == prey'.actor
                 j == prey'.target
                 a == prey.population[i]
                 t == prey.population[j]
             IN  IF a.alive /\ t.alive /\ InContact(a, t) /\ Overpowers(a, t)
                 THEN prey'.population =
                         [prey.population EXCEPT
                             ![i] = [a EXCEPT !.energy = a.energy + t.energy \div 2,
                                              !.kills = a.kills + 1],
                             ![j] = [t EXCEPT !.alive = FALSE]]
                 ELSE prey'.population = prey.population ]_vars
    /\ [][ PreyTickTaken =>
             \A i \in 1..Len(prey.population) :
                /\ ~prey.population[i].alive => prey'.population[i] = prey.population[i]
                /\ prey'.population[i].kills > prey.population[i].kills
                      => /\ IsPredator(prey.population[i])
                         /\ \E j \in 1..Len(prey.population) :
                               /\ j # i
                               /\ prey.population[j].alive /\ ~prey'.population[j].alive
                               /\ Overpowers(prey.population[i], prey.population[j]) ]_vars
    /\ [](\A i \in 1..Len(prey.population) :
             LET t == findNearestPrey(prey.population, i)
             IN  t # 0 => t # i /\ prey.population[t].alive)

\* A hunter with energy 100 has just killed a touching grazer of energy 51:
\* it holds 125.5 and one kill.
C23_Witness ==
    /\ prey.call = "attackOrganism"
    /\ prey.population[prey.actor].genes = HunterGenome7
    /\ prey.population[prey.actor].kills = 1
    /\ prey.population[prey.actor].energy = 12550
    /\ ~prey.population[prey.target].alive
    /\ prey.population[prey.target].energy = 5100

\* ------------------------------------------- the arena's edges (same engine)

\* One organism as the constructor may place it (x = Math.random() * width):
\* near the left edge, in the middle, a step inside the right margin of a
\* grazer (100 - 6 = 94), or a step from the right edge.
WallPopulations ==
    { <<NewOrganism7(x, MidLine, genes)>> :
         x \in {50, 2800, 9390, 9990}, genes \in {HunterGenome7, GrazerGenome7} }

\* Food as spawnFood may place it: as on the hunting ground, or at the left edge.
WallFood == PreyFood \cup { <<Food(0, MidLine)>> }

InitWalls ==
    /\ \E pop \in WallPopulations, food \in WallFood :
          prey = [population |-> pop, food |-> food, width |-> ArenaWidth * 100,
                  call |-> "new", ticks |-> 0, n |-> 0]
    /\ sim = <<>> /\ lastCall = "none" /\ ticks = 0 /\ calls = 0
    /\ gA = MidGenome /\ gB = MidGenome /\ child = MidGenome
    /\ lastOp = "none" /\ ops = 0
    /\ adaptiveWeights = [t \in Traits |-> 100]
    /\ intel = <<>> /\ pe = <<>> /\ rateLab = <<>> /\ org = <<>>

SpecWalls == InitWalls /\ [][NextPrey]_vars

\* C24 (as claimed): after every update of a living organism its position
\* is at least its body size away from both edges, and it has not come out
\* at the opposite edge: it moved by no more than its speed.
C24_StaysInsideMargins ==
    [][ PreyTickTaken =>
          \A i \in 1..Len(prey.population) :
             prey.population[i].alive =>
                /\ prey'.population[i].x >= prey'.population[i].genes.size
                /\ prey'.population[i].x <= prey.width - prey'.population[i].genes.size
                /\ Abs(prey'.population[i].x - prey.population[i].x)
                      <= prey.population[i].genes.speed ]_vars

\* ------------------------------------- the order of a tick (same engine)

\* Organisms in contact or a step apart, as a generation may leave them: a
\* hunter can kill a hunter (15 * 1.8 > 15 * 1.3) and a grazer, a grazer nobody.
DuelOrganisms ==
    { Organism7At(x, genes, 10000, TRUE) :
         x \in {2800, 3000}, genes \in {HunterGenome7, GrazerGenome7} }

InitDuel ==
    /\ \E n \in 2..3 : \E pop \in [1..n -> DuelOrganisms] :
          prey = [population |-> pop, food |-> <<Food(3000, MidLine)>>,
                  width |-> ArenaWidth * 100,
                  call |-> "new", ticks |-> 0, n |-> 0]
    /\ sim = <<>> /\ lastCall = "none" /\ ticks = 0 /\ calls = 0
    /\ gA = MidGenome /\ gB = MidGenome /\ child = MidGenome
    /\ lastOp = "none" /\ ops = 0
    /\ adaptiveWeights = [t \in Traits |-> 100]
    /\ intel = <<>> /\ pe = <<>> /\ rateLab = <<>> /\ org = <<>>

SpecDuel == InitDuel /\ [][NextPrey]_vars

\* The organism loop of Simulation.update() after its first `last` turns.
RECURSIVE turnsUpTo(_, _, _, _, _, _)
turnsUpTo(pop, food, width, rs, i, last) ==
    IF i > last THEN [population |-> pop, food |-> food]
    ELSE LET r == Organism7_update(pop, food, width, i, rs[i])
         IN  turnsUpTo(r.population, r.food, width, rs, i + 1, last)

\* C30: a tick takes the organisms one at a time in list order.  An
\* organism killed by another before its own turn does nothing in its turn
\* and is touched by nobody afterwards: it ends the tick as it began it,
\* except that it is dead.  The list keeps its length through every turn,
\* and no two organisms kill each other in one tick.
C30_KilledTakeNoTurn ==
    [][ PreyTickTaken =>
          \E rs \in [1..Len(prey.population) -> {0, 900}] :
             LET n == Len(prey.population)
                 fed == maintainFood([food |-> prey.food, foodAbundance |-> 50],
                                     <<FoodSpotA>>)
                 after(k) == turnsUpTo(prey.population, fed.food, prey.width, rs, 1, k).population
                 killedIn(k, i) == i # k /\ after(k - 1)[i].alive /\ ~after(k)[i].alive
             IN  /\ prey'.population = after(n)
                 /\ \A k \in 0..n : Len(after(k)) = n
                 /\ \A i \in 1..n :
                       ~after(i - 1)[i].alive =>
                          \A k \in i..n : after(k)[i] = after(i - 1)[i]
                 /\ \A i \in 1..n :
                       prey.population[i].alive /\ ~after(i - 1)[i].alive =>
                          prey'.population[i] = [prey.population[i] EXCEPT !.alive = FALSE]
                 /\ \A i \in 1..n : \A j \in 1..n :
                       ~(killedIn(i, j) /\ killedIn(j, i)) ]_vars

\* Two hunters in contact after one tick: the first has its kill and has
\* moved on; the second, whose turn came after, is where it was, as old as
\* it was and with the energy it had, dead, and has killed nobody.
C30_Witness ==
    /\ prey.call = "update"
    /\ prey.ticks = 1
    /\ Len(prey.population) = 2
    /\ prey.population[1].genes = HunterGenome7
    /\ prey.population[1].alive
    /\ prey.population[1].kills = 1
    /\ prey.population[1].age = 11
    /\ prey.population[2] = Organism7At(3000, HunterGenome7, 10000, FALSE)

\* ------------------------------ energy between interventions (same engine)

\* Interventions followed between the ticks.
MaxVitalCalls == 2

\* The energy of an organism is a double: energyKind tells a number, held in
\* energy, from NaN and from -Infinity.
VitalOrganism(x, genes) ==
    [genes |-> genes, x |-> x, y |-> MidLine, energy |-> InitialEnergy,
     energyKind |-> "number", foodCollected |-> 0, age |-> 0, alive |-> TRUE,
     vx |-> 0, vy |-> 0, kills |-> 0]

\* movementCost * deltaTime * 0.1 subtracted from the energy, in doubles:
\* with efficiency 0 the factor 1 / efficiency is Infinity, and the cost is
\* 0 * Infinity = NaN for an organism at rest and Infinity for one that moves.
energyAfterCost(o) ==
    IF o.energyKind # "number" THEN o
    ELSE IF o.genes.efficiency = 0
    THEN [o EXCEPT !.energyKind = IF o.vx = 0 /\ o.vy = 0 THEN "NaN" ELSE "-Infinity"]
    ELSE [o EXCEPT !.energy = @ - movementCost7(o)]

\* if (this.energy <= 0) this.alive = false: false for NaN
deathCheck7(o) ==
    IF \/ o.energyKind = "-Infinity"
       \/ o.energyKind = "number" /\ o.energy <= 0
    THEN [o EXCEPT !.alive = FALSE]
    ELSE o

\* this.energy += target.energy * 0.5 of attackOrganism, in doubles
energyAfterKill(o, target, killed) ==
    IF killed /\ target.energyKind = "NaN" /\ o.energyKind = "number"
    THEN [o EXCEPT !.energyKind = "NaN"]
    ELSE o

\* Organism.update(environment, 1, allOrganisms) for organism i, with the
\* energy in doubles.
Organism7_updateDoubles(pop, food, width, i, r) ==
    IF ~pop[i].alive THEN [population |-> pop, food |-> food]
    ELSE
      LET aged == [pop[i] EXCEPT !.age = @ + 1]
          isCarnivore == aged.genes.dietType > 60
          isAggressive == aged.genes.aggression > 500
          nearestPrey == IF isCarnivore \/ isAggressive THEN findNearestPrey(pop, i) ELSE 0
          nearestFood == findNearestFood(aged, food)
          hunt == attackOrganism(moveTowards(aged, pop[nearestPrey]), pop[nearestPrey])
          decided == IF nearestPrey # 0
                     THEN energyAfterKill(hunt.org, pop[nearestPrey],
                                          hunt.target.alive # pop[nearestPrey].alive)
                     ELSE IF nearestFood # 0 THEN moveTowards(aged, food[nearestFood])
                     ELSE randomWalk(aged, r)
          others == IF nearestPrey # 0 THEN [pop EXCEPT ![nearestPrey] = hunt.target] ELSE pop
          moved == [decided EXCEPT !.x = (decided.x + decided.vx + width) % width]
          fed == collectFood7(deathCheck7(energyAfterCost(moved)), food)
      IN  [population |-> [others EXCEPT ![i] = fed.org], food |-> fed.food]

\* The organism loop of Simulation.update(), with the energy in doubles
RECURSIVE updateOrganismsDoubles(_, _, _, _, _)
updateOrganismsDoubles(pop, food, width, rs, i) ==
    IF i > Len(pop) THEN [population |-> pop, food |-> food]
    ELSE LET r == Organism7_updateDoubles(pop, food, width, i, rs[i])
         IN  updateOrganismsDoubles(r.population, r.food, width, rs, i + 1)

\* One organism as the constructor leaves it, and what editGene is given for
\* a gene: a value of its domain, or 0.
VitalPopulations ==
    { <<VitalOrganism(2800, genes)>> : genes \in {HunterGenome7, GrazerGenome7} }
VitalEdits ==
    { [gene |-> "speed", value |-> 0], [gene |-> "efficiency", value |-> 0],
      [gene |-> "efficiency", value |-> 50], [gene |-> "size", value |-> 2500] }

InitVital ==
    /\ \E pop \in VitalPopulations, food \in PreyFood :
          prey = [population |-> pop, food |-> food, width |-> ArenaWidth * 100,
                  call |-> "new", ticks |-> 0, n |-> 0]
    /\ sim = <<>> /\ lastCall = "none" /\ ticks = 0 /\ calls = 0
    /\ gA = MidGenome /\ gB = MidGenome /\ child = MidGenome
    /\ lastOp = "none" /\ ops = 0
    /\ adaptiveWeights = [t \in Traits |-> 100]
    /\ intel = <<>> /\ pe = <<>> /\ rateLab = <<>> /\ org = <<>>

\* One update() of the running simulation within a generation.
VitalUpdate ==
    /\ prey.ticks < MaxPreyTicks
    /\ \E rs \in [1..Len(prey.population) -> {0, 900}] :
          LET fed == maintainFood([food |-> prey.food, foodAbundance |-> 50], <<FoodSpotA>>)
              r == updateOrganismsDoubles(prey.population, fed.food, prey.width, rs, 1)
          IN  /\ ~allDead(r.population)
              /\ prey' = [prey EXCEPT !.population = r.population,
                                      !.food = r.food,
                                      !.call = "update",
                                      !.ticks = @ + 1]
    /\ UNCHANGED <<genomeVars, simVars, intel, pe, rateLab, org>>

\* editGene(organism, geneName, value)
VitalEdit ==
    /\ prey.n < MaxVitalCalls
    /\ \E i \in 1..Len(prey.population), e \in VitalEdits :
          prey' = [prey EXCEPT
                      !.population[i] = editGene(@, e.gene, e.value).org,
                      !.call = "editGene",
                      !.n = @ + 1]
    /\ UNCHANGED <<genomeVars, simVars, intel, pe, rateLab, org>>

\* mutateOrganism(organism, 0.5)
VitalMutate ==
    /\ prey.n < MaxVitalCalls
    /\ \E i \in 1..Len(prey.population), draws \in EditDraws :
          prey' = [prey EXCEPT
                      !.population[i].genes = Genome7_mutate(@, 500, draws),
                      !.call = "mutateOrganism",
                      !.n = @ + 1]
    /\ UNCHANGED <<genomeVars, simVars, intel, pe, rateLab, org>>

\* cloneOrganism(organism): a new organism at the same place, energy 100
VitalClone ==
    /\ prey.n < MaxVitalCalls
    /\ \E i \in 1..Len(prey.population) :
          prey' = [prey EXCEPT
                      !.population = Append(@, VitalOrganism(prey.population[i].x,
                                                             prey.population[i].genes)),
                      !.call = "cloneOrganism",
                      !.n = @ + 1]
    /\ UNCHANGED <<genomeVars, simVars, intel, pe, rateLab, org>>

\* triggerEvent('plague') and triggerEvent('ice-age'); Math.max(10, NaN) is NaN
VitalEvent ==
    /\ prey.n < MaxVitalCalls
    /\ \E eventType \in {"plague", "ice-age"} :
          prey' = [prey EXCEPT
                      !.population =
                         IF eventType = "ice-age" THEN iceAge(@)
                         ELSE [i \in 1..Len(@) |->
                                 IF @[i].energyKind = "NaN" THEN @[i]
                                 ELSE IF @[i].energyKind = "-Infinity"
                                 THEN [@[i] EXCEPT !.energyKind = "number", !.energy = 1000]
                                 ELSE [@[i] EXCEPT !.energy = Max(1000, @ \div 2)]],
                      !.call = eventType,
                      !.n = @ + 1]
    /\ UNCHANGED <<genomeVars, simVars, intel, pe, rateLab, org>>

NextVital ==
    \/ VitalUpdate
    \/ VitalEdit
    \/ VitalMutate
    \/ VitalClone
    \/ VitalEvent

SpecVital == InitVital /\ [][NextVital]_vars

\* C32 (as claimed): at the end of every tick every living organism has
\* energy strictly greater than 0, whatever plagues, ice ages, gene edits,
\* mutations and clonings came between the ticks.
C32_LivingHaveEnergy ==
    [][ PreyTickTaken =>
          \A i \in 1..Len(prey'.population) :
             prey'.population[i].alive =>
                /\ prey'.population[i].energyKind = "number"
                /\ prey'.population[i].energy > 0 ]_vars

\* ------------------------------------------------ the food supply alone

\* Items eaten while the supply is followed.
MaxEaten == 2

\* The target of maintainFood for the arena of the model.
TargetFoodCount(foodAbundance) == (ArenaWidth * ArenaHeight * foodAbundance) \div 250000

\* An environment with the food a generation left: none, some, or more than
\* the target; foodAbundance as a mission may set it (targets 0, 1, 7 and 12).
InitForage ==
    /\ \E count \in {0, 1, 3, 9, 14}, foodAbundance \in {25, 50, 350, 600} :
          prey = [food |-> spawnFood(<<>>, count, <<FoodSpotB>>),
                  foodAbundance |-> foodAbundance, call |-> "new", n |-> 0]
    /\ sim = <<>> /\ lastCall = "none" /\ ticks = 0 /\ calls = 0
    /\ gA = MidGenome /\ gB = MidGenome /\ child = MidGenome
    /\ lastOp = "none" /\ ops = 0
    /\ adaptiveWeights = [t \in Traits |-> 100]
    /\ intel = <<>> /\ pe = <<>> /\ rateLab = <<>> /\ org = <<>>

\* Environment.update().  At or above the target it changes nothing.
EnvUpdate ==
    /\ \E spots \in FoodSpotSeqs :
          prey' = [maintainFood(prey, spots) EXCEPT !.call = "update"]
    /\ UNCHANGED <<genomeVars, simVars, intel, pe, rateLab, org>>

\* The splice of a collectFood: one item leaves the list.
EnvEat ==
    /\ prey.n < MaxEaten
    /\ \E i \in 1..Len(prey.food) :
          prey' = [prey EXCEPT !.food = RemoveAt(@, i), !.call = "collectFood", !.n = @ + 1]
    /\ UNCHANGED <<genomeVars, simVars, intel, pe, rateLab, org>>

NextForage ==
    \/ EnvUpdate
    \/ EnvEat

\* The host loop keeps calling update().
SpecForage == InitForage /\ [][NextForage]_vars /\ WF_vars(EnvUpdate)

EnvUpdateTaken == prey'.call = "update" /\ prey'.n = prey.n

\* C33: Environment.update removes no food and adds at most 5 items, only
\* while the count is below the target, and never beyond the target; below
\* the target it adds min(5, deficit), so that the count reaches the target
\* after finitely many updates once nothing more is eaten.
C33_FoodReplenishment ==
    /\ [][ EnvUpdateTaken =>
             LET before == Len(prey.food)
                 after == Len(prey'.food)
                 targetFoodCount == TargetFoodCount(prey.foodAbundance)
             IN  /\ after >= before
                 /\ SubSeq(prey'.food, 1, before) = prey.food
                 /\ after - before <= MaxFoodPerTick
                 /\ after > before => before < targetFoodCount /\ after <= targetFoodCount
                 /\ before < targetFoodCount
                       => after = Min(before + MaxFoodPerTick, targetFoodCount)
                 /\ prey'.foodAbundance = prey.foodAbundance ]_vars
    /\ (Len(prey.food) < TargetFoodCount(prey.foodAbundance))
          ~> (Len(prey.food) = TargetFoodCount(prey.foodAbundance))

\* With nothing eaten the supply stands at its target of 12, which takes
\* more than one update from each of the starting counts below it.
C33_Witness ==
    /\ prey.call = "update"
    /\ prey.n = 0
    /\ prey.foodAbundance = 600
    /\ Len(prey.food) = 12
    /\ prey.food[1] = FoodSpotA

\* ------------------------------------------- the causes of death, stand-alone

\* A genome whose efficiency mutation or an ice age has taken below 0.5.
WastefulGenome == [speed |-> 200, vision |-> 5000, size |-> 500, efficiency |-> 40]

\* Organisms at the end of a generation: starved with 2 items, exhausted
\* with 3, killed by a meteor with energy left (wasteful, at the threshold
\* of 0.5, frugal), and one alive.
CauseOrganisms ==
    { [NewOrganism(0, 2800, MidLine, SmallGenome)
          EXCEPT !.alive = FALSE, !.energy = 0, !.foodCollected = 2, !.age = 100],
      [NewOrganism(0, 2800, MidLine, WastefulGenome)
          EXCEPT !.alive = FALSE, !.energy = 0 - 50, !.foodCollected = 3, !.age = 100],
      [NewOrganism(0, 2800, MidLine, WastefulGenome)
          EXCEPT !.alive = FALSE, !.energy = 5000, !.age = 100],
      [NewOrganism(0, 2800, MidLine, BigGenome)
          EXCEPT !.alive = FALSE, !.energy = 5000, !.foodCollected = 1, !.age = 100],
      [NewOrganism(0, 2800, MidLine, SmallGenome)
          EXCEPT !.alive = TRUE, !.energy = 5000, !.age = 100] }

InitCauses ==
    /\ \E n \in 1..4 : \E orgs \in [1..n -> CauseOrganisms] :
          intel = [population |-> WithIds(orgs),
                   selectionPressure |-> 500,
                   ei |-> NewEvolutionIntelligence,
                   eco |-> NewEcosystemIntelligence,
                   survivors |-> <<>>,
                   analysis |-> Null,
                   call |-> "none",
                   n |-> 0]
    /\ sim = <<>> /\ lastCall = "none" /\ ticks = 0 /\ calls = 0
    /\ gA = MidGenome /\ gB = MidGenome /\ child = MidGenome
    /\ lastOp = "none" /\ ops = 0
    /\ adaptiveWeights = [t \in Traits |-> 100]
    /\ pe = <<>> /\ LabsIdle

NextCauses ==
    \/ CallAnalyzeGeneration
    \/ CallTriggerEvent

SpecCauses == InitCauses /\ [][NextCauses]_vars

AnalyzeTaken == intel'.n = intel.n + 1 /\ intel'.call = "analyzeGeneration"

\* The dead organisms of the population analysed, by the claim's conditions.
DeadWith(cause) ==
    { i \in 1..Len(intel.population) :
         LET o == intel.population[i]
         IN  /\ ~o.alive
             /\ CASE cause = "starvation" -> o.energy <= 0 /\ o.foodCollected < 3
                  [] cause = "exhaustion" -> o.energy <= 0 /\ ~(o.foodCollected < 3)
                  [] cause = "inefficiency" -> o.energy > 0 /\ o.genes.efficiency < 50
                  [] OTHER -> o.energy > 0 /\ ~(o.genes.efficiency < 50) }

\* C34: analyzeDeathCauses counts every dead organism under exactly one
\* cause: starvation for energy <= 0 with fewer than 3 items collected,
\* exhaustion for energy <= 0 otherwise, inefficiency for positive energy
\* with efficiency below 0.5, unknown for the rest; the four counts add up to
\* the number of dead organisms.
C34_DeathCausesPartition ==
    [][ AnalyzeTaken =>
          LET causes == intel'.ei.generationHistory[Len(intel'.ei.generationHistory)].deathCauses
              dead == { i \in 1..Len(intel.population) : ~intel.population[i].alive }
          IN  /\ DOMAIN causes = {"starvation", "exhaustion", "inefficiency", "unknown"}
              /\ \A c \in DOMAIN causes : causes[c] = Cardinality(DeadWith(c))
              /\ causes.starvation + causes.exhaustion + causes.inefficiency + causes.unknown
                    = Cardinality(dead) ]_vars

\* An analysed population of four dead organisms, one for each cause.
C34_Witness ==
    /\ intel.call = "analyzeGeneration"
    /\ Len(intel.population) = 4
    /\ \A i \in 1..4 : ~intel.population[i].alive
    /\ intel.ei.generationHistory[Len(intel.ei.generationHistory)].deathCauses
          = [starvation |-> 1, exhaustion |-> 1, inefficiency |-> 1, unknown |-> 1]

\* ------------------------- what an organism owns: genome, brain, memory

\* Calls followed on the organisms of this section.
MaxOrgCalls == 2

\* BehavioralBrain: this.behaviorCommitment = 30
behaviorCommitment == 30

\* OrganismMemory: this.maxMemorySize = 50, the 20 cells kept of the food
\* density map, and gridSize = 50, * 100
maxMemorySize == 50
MaxFoodCells == 20
gridSize == 5000

\* The six behaviours evaluateBehaviors ranks, and the nameless object
\* { priority: 0.7 } the abundance response puts in the place of exploration.
Behavior(name) == [name |-> name]

Behaviors ==
    { Behavior(name) : name \in {"food_seeking", "exploration", "energy_conservation",
                                 "breeding", "territory_control", "social_behavior"} }
    \cup { [priority |-> 700] }

\* new BehavioralBrain(organism)
NewBehavioralBrain ==
    [currentBehavior |-> Null, behaviorTimer |-> 0, behaviorCommitment |-> behaviorCommitment]

\* new OrganismMemory(); the danger zones expire by the clock and are left out
NewOrganismMemory == [recentPositions |-> <<>>, foodDensityMap |-> <<>>]

\* evaluateBehaviors as it would be without the commitment test.
evaluateBehaviors_restless(brain, top) ==
    [brain |-> [brain EXCEPT !.currentBehavior = top,
                             !.behaviorTimer = brain.behaviorCommitment],
     returned |-> top]

\* BehavioralBrain.evaluateBehaviors(environment, instincts, memory): `top`
\* is behaviors[0] after the sort; the brain afterwards and the value returned.
evaluateBehaviors(brain, top) ==
    IF brain.behaviorTimer > 0
    THEN [brain |-> [brain EXCEPT !.behaviorTimer = @ - 1],
          returned |-> IF brain.currentBehavior = Null THEN top ELSE brain.currentBehavior]
    ELSE [brain |-> [brain EXCEPT !.currentBehavior = top,
                                  !.behaviorTimer = brain.behaviorCommitment],
          returned |-> top]

\* recordPosition as it would be without the shift.
recordPosition_keepsAll(memory, x, y) ==
    [memory EXCEPT !.recentPositions = Append(@, [x |-> x, y |-> y])]

\* OrganismMemory.recordPosition(x, y)
recordPosition(memory, x, y) ==
    LET pushed == Append(memory.recentPositions, [x |-> x, y |-> y])
    IN  [memory EXCEPT !.recentPositions =
            IF Len(pushed) > maxMemorySize THEN Tail(pushed) ELSE pushed]

\* OrganismMemory.recordFoodFound(x, y): the map as the sequence of its
\* entries in insertion order; over 20 cells it is rebuilt from the 20
\* densest, in sorted order.
recordFoodFound(memory, x, y) ==
    LET cell == <<(x \div gridSize) * gridSize, (y \div gridSize) * gridSize>>
        map == memory.foodDensityMap
        known == { i \in 1..Len(map) : map[i].item = cell }
        set == IF known = {}
               THEN Append(map, [key |-> 1, item |-> cell])
               ELSE [i \in 1..Len(map) |->
                        IF i \in known THEN [map[i] EXCEPT !.key = @ + 1] ELSE map[i]]
    IN  [memory EXCEPT !.foodDensityMap =
            IF Len(set) > MaxFoodCells
            THEN SubSeq(SortEntriesDesc(set), 1, MaxFoodCells)
            ELSE set]

\* Organism.clone() as it would be if the clone were handed the genome itself.
Organism_clone_sharesGenome(state, i) ==
    LET o == state.organisms[i]
    IN  [state EXCEPT !.organisms =
            Append(@, [genome |-> o.genome, x |-> o.x, y |-> o.y, energy |-> InitialEnergy,
                       foodCollected |-> 0, age |-> 0, alive |-> TRUE, lockedFor |-> 0,
                       brain |-> NewBehavioralBrain, memory |-> NewOrganismMemory])]

\* Simulation.cloneOrganism(organism) with Organism.clone() and
\* Genome.clone(): `genomes` is the heap of Genome objects, an organism holds
\* the index of its own; the clone gets a new Genome with the genes copied.
Organism_clone(state, i) ==
    LET o == state.organisms[i]
    IN  [state EXCEPT
            !.genomes = Append(@, state.genomes[o.genome]),
            !.organisms =
                Append(@, [genome |-> Len(state.genomes) + 1, x |-> o.x, y |-> o.y,
                           energy |-> InitialEnergy, foodCollected |-> 0, age |-> 0,
                           alive |-> TRUE, lockedFor |-> 0,
                           brain |-> NewBehavioralBrain, memory |-> NewOrganismMemory])]

\* A brain with a selection behind it: `timer` evaluations of the window left.
CommittedBrain(behavior, timer) ==
    [currentBehavior |-> behavior, behaviorTimer |-> timer,
     behaviorCommitment |-> behaviorCommitment]

\* A memory after `steps` ticks along the middle line and food found in
\* `cells` cells of the grid.
UsedMemory(steps, cells) ==
    [recentPositions |-> [i \in 1..steps |-> [x |-> 2800 + 100 * i, y |-> MidLine]],
     foodDensityMap |->
        [i \in 1..cells |->
            [key |-> 1 + (i % 3),
             item |-> <<gridSize * (i % 10), gridSize * (i \div 10)>>]]]

\* One organism some way into its life; lockedFor counts the evaluations
\* since its brain last selected.
OrgStates ==
    { [genome |-> 1, x |-> 2800, y |-> MidLine, energy |-> e, foodCollected |-> 2,
       age |-> 100, alive |-> TRUE, lockedFor |-> 0,
       brain |-> NewBehavioralBrain, memory |-> m] :
          e \in {3000, InitialEnergy, EnergyCap},
          m \in { NewOrganismMemory, UsedMemory(maxMemorySize - 1, MaxFoodCells - 1),
                  UsedMemory(maxMemorySize, MaxFoodCells) } }
    \cup
    { [genome |-> 1, x |-> 2800, y |-> MidLine, energy |-> 3000, foodCollected |-> 2,
       age |-> 100, alive |-> TRUE, lockedFor |-> behaviorCommitment - timer,
       brain |-> CommittedBrain(b, timer), memory |-> UsedMemory(3, 1)] :
          b \in {Behavior("food_seeking"), Behavior("energy_conservation")},
          timer \in 0..behaviorCommitment }

InitOrg ==
    /\ \E o \in OrgStates, g \in NewGenomes :
          org = [organisms |-> <<o>>, genomes |-> <<g>>,
                 call |-> "none", target |-> 0, top |-> Null, returned |-> Null, n |-> 0]
    /\ sim = <<>> /\ lastCall = "none" /\ ticks = 0 /\ calls = 0
    /\ gA = MidGenome /\ gB = MidGenome /\ child = MidGenome
    /\ lastOp = "none" /\ ops = 0
    /\ adaptiveWeights = [t \in Traits |-> 100]
    /\ intel = <<>> /\ pe = <<>> /\ rateLab = <<>> /\ prey = <<>>

\* One brain evaluation of organism i: whatever the priorities are, some
\* behaviour comes out on top of the sort.
OrgEvaluate ==
    /\ org.n < MaxOrgCalls
    /\ \E i \in 1..Len(org.organisms), top \in Behaviors :
          LET r == evaluateBehaviors(org.organisms[i].brain, top)
          IN  org' = [org EXCEPT
                         !.organisms[i].brain = r.brain,
                         !.organisms[i].lockedFor =
                             IF org.organisms[i].brain.behaviorTimer > 0 THEN @ + 1 ELSE 0,
                         !.call = "evaluateBehaviors",
                         !.target = i,
                         !.top = top,
                         !.returned = r.returned,
                         !.n = @ + 1]
    /\ UNCHANGED <<genomeVars, simVars, intel, pe, rateLab, prey>>

\* Places an organism passes and finds food at.
OrgPlaces == { <<2500, MidLine>>, <<7500, 12500>> }

OrgRecordPosition ==
    /\ org.n < MaxOrgCalls
    /\ \E i \in 1..Len(org.organisms), place \in OrgPlaces :
          org' = [org EXCEPT
                     !.organisms[i].memory = recordPosition(@, place[1], place[2]),
                     !.call = "recordPosition",
                     !.target = i,
                     !.n = @ + 1]
    /\ UNCHANGED <<genomeVars, simVars, intel, pe, rateLab, prey>>

OrgRecordFoodFound ==
    /\ org.n < MaxOrgCalls
    /\ \E i \in 1..Len(org.organisms), place \in OrgPlaces :
          org' = [org EXCEPT
                     !.organisms[i].memory = recordFoodFound(@, place[1], place[2]),
                     !.call = "recordFoodFound",
                     !.target = i,
                     !.n = @ + 1]
    /\ UNCHANGED <<genomeVars, simVars, intel, pe, rateLab, prey>>

OrgClone ==
    /\ org.n < MaxOrgCalls
    /\ \E i \in 1..Len(org.organisms) :
          org' = [Organism_clone(org, i) EXCEPT
                     !.call = "cloneOrganism", !.target = i, !.n = @ + 1]
    /\ UNCHANGED <<genomeVars, simVars, intel, pe, rateLab, prey>>

\* mutateOrganism(organism, 0.5): organism.genome.mutate(intensity) writes
\* the genes of the Genome object the organism holds.
OrgMutate ==
    /\ org.n < MaxOrgCalls
    /\ \E i \in 1..Len(org.organisms), draws \in {MutateUp, MutateDown} :
          org' = [org EXCEPT
                     !.genomes[org.organisms[i].genome] = Genome_mutate(@, 500, draws),
                     !.call = "mutateOrganism",
                     !.target = i,
                     !.n = @ + 1]
    /\ UNCHANGED <<genomeVars, simVars, intel, pe, rateLab, prey>>

NextOrg ==
    \/ OrgEvaluate
    \/ OrgRecordPosition
    \/ OrgRecordFoodFound
    \/ OrgClone
    \/ OrgMutate

SpecOrg == InitOrg /\ [][NextOrg]_vars

\* The genes an organism of a state carries.
GenesOf(state, i) == state.genomes[state.organisms[i].genome]

OrgCallTaken(name) == org'.n = org.n + 1 /\ org'.call = name

\* C14: cloneOrganism(o) appends exactly one organism, with o's trait values,
\* energy 100 whatever o's energy, and a new brain and memory; it leaves o and
\* every other organism as it was; and mutating any organism afterwards
\* leaves the genes of every other organism as they were.
C14_CloneIsIndependentCopy ==
    [][ /\ OrgCallTaken("cloneOrganism") =>
              LET i == org'.target
                  c == Len(org.organisms) + 1
              IN  /\ Len(org'.organisms) = c
                  /\ \A j \in 1..Len(org.organisms) :
                        org'.organisms[j] = org.organisms[j] /\ GenesOf(org', j) = GenesOf(org, j)
                  /\ GenesOf(org', c) = GenesOf(org, i)
                  /\ org'.organisms[c].energy = InitialEnergy
                  /\ org'.organisms[c].brain = NewBehavioralBrain
                  /\ org'.organisms[c].memory = NewOrganismMemory
        /\ OrgCallTaken("mutateOrganism") =>
              \A j \in 1..Len(org.organisms) :
                 j # org'.target => GenesOf(org', j) = GenesOf(org, j) ]_vars

\* An organism of energy 30 with a used memory was cloned, and the clone
\* then mutated: the two carry different genes.
C14_Witness ==
    /\ org.call = "mutateOrganism" /\ org.target = 2 /\ org.n = 2
    /\ Len(org.organisms) = 2
    /\ org.organisms[1].energy = 3000 /\ org.organisms[2].energy = InitialEnergy
    /\ org.organisms[1].memory # NewOrganismMemory
    /\ GenesOf(org, 1) # GenesOf(org, 2)

\* C16: an evaluation made while the commitment timer is above 0 returns the
\* behaviour selected last, whatever ranks first, and counts the timer down
\* by one; an evaluation at timer 0 selects the behaviour that ranks first
\* and sets the timer to 30.  So the selected behaviour changes only at timer
\* 0, and only after the 30 evaluations that followed the last selection.
C16_CommitmentWindow ==
    [][ OrgCallTaken("evaluateBehaviors") =>
          LET before == org.organisms[org'.target]
              after == org'.organisms[org'.target]
          IN  /\ before.brain.behaviorTimer > 0 =>
                    /\ org'.returned = before.brain.currentBehavior
                    /\ after.brain.currentBehavior = before.brain.currentBehavior
                    /\ after.brain.behaviorTimer = before.brain.behaviorTimer - 1
              /\ before.brain.behaviorTimer = 0 =>
                    /\ org'.returned = org'.top
                    /\ after.brain.currentBehavior = org'.top
                    /\ after.brain.behaviorTimer = 30
                    /\ before.brain.currentBehavior # Null => before.lockedFor = 30 ]_vars

\* The thirtieth evaluation after a selection: another behaviour ranks
\* first, the selected one is returned, and the timer has run down.
C16_Witness ==
    /\ org.call = "evaluateBehaviors"
    /\ org.organisms[org.target].lockedFor = 30
    /\ org.organisms[org.target].brain.behaviorTimer = 0
    /\ org.returned = org.organisms[org.target].brain.currentBehavior
    /\ org.top # org.returned

\* ------------------------------------------------- the bounded histories

\* The controllers after many generations, their windows one short of full
\* or full, beside an organism whose memory is one short of full or full.
InitHistories ==
    /\ \E samples \in {MaxSuccessRates - 1, MaxSuccessRates},
          trends \in {MaxTrendSamples - 1, MaxTrendSamples} :
          intel = [population |-> PopulationAt(4, 1),
                   selectionPressure |-> 500,
                   ei |-> [NewEvolutionIntelligence EXCEPT
                              !.traitSuccessRates = [t \in Traits |-> [i \in 1..samples |-> 0]]],
                   eco |-> [NewEcosystemIntelligence EXCEPT
                               !.populationTrends = [i \in 1..trends |-> 5],
                               !.diversityIndex = [i \in 1..trends |-> 0],
                               !.stabilityScore = [i \in 1..trends |-> 0]],
                   survivors |-> <<>>,
                   analysis |-> Null,
                   call |-> "none",
                   n |-> 0]
    /\ \E full \in 0..1 :
          org = [organisms |->
                    << [genome |-> 1, x |-> 2800, y |-> MidLine, energy |-> 3000,
                        foodCollected |-> 2, age |-> 100, alive |-> TRUE, lockedFor |-> 0,
                        brain |-> NewBehavioralBrain,
                        memory |-> UsedMemory(maxMemorySize - 1 + full,
                                              MaxFoodCells - 1 + full)] >>,
                 genomes |-> <<BigGenome>>,
                 call |-> "none", target |-> 0, top |-> Null, returned |-> Null, n |-> 0]
    /\ sim = <<>> /\ lastCall = "none" /\ ticks = 0 /\ calls = 0
    /\ gA = MidGenome /\ gB = MidGenome /\ child = MidGenome
    /\ lastOp = "none" /\ ops = 0
    /\ adaptiveWeights = [t \in Traits |-> 100]
    /\ pe = <<>> /\ rateLab = <<>> /\ prey = <<>>

NextHistories ==
    \/ CallAnalyzeGeneration
    \/ CallAnalyzeEcosystem
    \/ OrgRecordPosition
    \/ OrgRecordFoodFound

SpecHistories == InitHistories /\ [][NextHistories]_vars

\* C17: an organism remembers at most 50 positions, dropping the oldest
\* first, and at most 20 cells of food density; the controllers keep at most
\* 20 correlation samples per trait and at most 50 samples in each of the
\* population, diversity and stability windows.
C17_HistoriesAreBounded ==
    /\ [](/\ \A i \in 1..Len(org.organisms) :
                /\ Len(org.organisms[i].memory.recentPositions) <= 50
                /\ Len(org.organisms[i].memory.foodDensityMap) <= 20
          /\ \A t \in Traits : Len(intel.ei.traitSuccessRates[t]) <= 20
          /\ Len(intel.eco.populationTrends) <= 50
          /\ Len(intel.eco.diversityIndex) <= 50
          /\ Len(intel.eco.stabilityScore) <= 50)
    /\ [][ OrgCallTaken("recordPosition") =>
              LET before == org.organisms[org'.target].memory.recentPositions
                  after == org'.organisms[org'.target].memory.recentPositions
              IN  /\ Len(before) < 50 => SubSeq(after, 1, Len(after) - 1) = before
                  /\ Len(before) = 50 => SubSeq(after, 1, Len(after) - 1) = Tail(before) ]_vars

\* Every window is full and has been pushed to since: the oldest position
\* remembered is the second of those the organism started with.
C17_Witness ==
    /\ org.call = "recordPosition"
    /\ Len(org.organisms[1].memory.recentPositions) = 50
    /\ org.organisms[1].memory.recentPositions[1] = [x |-> 3000, y |-> MidLine]
    /\ org.organisms[1].memory.recentPositions[50] = [x |-> 2500, y |-> MidLine]
    /\ Len(org.organisms[1].memory.foodDensityMap) = 20
    /\ intel.n = 2
    /\ Len(intel.eco.populationTrends) = 50
    /\ Len(intel.ei.traitSuccessRates["speed"]) = 20

\* -------------------------------------------- the danger zones of a memory

\* Memory calls followed, and the clock readings (Date.now(), in ms) they
\* happen at.
MaxMemoryCalls == 3
ClockReadings == {0, 4000, 10000, 16000}

\* expiryTime: Date.now() + 10000, and the default threshold of isDangerousArea
zoneLifetime == 10000
dangerThreshold == 10000

\* Places asked about and recorded: 300 apart, * 100.
MemoryPlaces == { [x |-> 0, y |-> 0], [x |-> 30000, y |-> 0] }

\* OrganismMemory.recordDangerZone(x, y, threat) at clock reading `now`:
\* push, then drop the zones whose expiry is not after now
recordDangerZone(dangerZones, place, threat, now) ==
    SelectSeq(Append(dangerZones,
                     [x |-> place.x, y |-> place.y, threat |-> threat,
                      timestamp |-> now, expiryTime |-> now + zoneLifetime]),
              LAMBDA zone : now < zone.expiryTime)

\* OrganismMemory.isDangerousArea(x, y): some zone closer than the threshold;
\* neither the clock nor expiryTime is read
isDangerousArea(dangerZones, place) ==
    \E i \in 1..Len(dangerZones) : WithinDistance(place, dangerZones[i], dangerThreshold)

\* new OrganismMemory(), at the first clock reading
InitMemory ==
    /\ org = [dangerZones |-> <<>>, recentPositions |-> <<>>, now |-> 0,
              call |-> "new", place |-> [x |-> 0, y |-> 0], returned |-> FALSE, n |-> 0]
    /\ sim = <<>> /\ lastCall = "none" /\ ticks = 0 /\ calls = 0
    /\ gA = MidGenome /\ gB = MidGenome /\ child = MidGenome
    /\ lastOp = "none" /\ ops = 0
    /\ adaptiveWeights = [t \in Traits |-> 100]
    /\ intel = <<>> /\ pe = <<>> /\ rateLab = <<>> /\ prey = <<>>

\* Each call happens at a clock reading not before the last one.
CallRecordDangerZone ==
    /\ org.n < MaxMemoryCalls
    /\ \E now \in ClockReadings, place \in MemoryPlaces :
          /\ now >= org.now
          /\ org' = [org EXCEPT
                        !.dangerZones = recordDangerZone(@, place, "starvation", now),
                        !.now = now,
                        !.call = "recordDangerZone",
                        !.place = place,
                        !.n = @ + 1]
    /\ UNCHANGED <<genomeVars, simVars, intel, pe, rateLab, prey>>

CallIsDangerousArea ==
    /\ org.n < MaxMemoryCalls
    /\ \E now \in ClockReadings, place \in MemoryPlaces :
          /\ now >= org.now
          /\ org' = [org EXCEPT
                        !.returned = isDangerousArea(org.dangerZones, place),
                        !.now = now,
                        !.call = "isDangerousArea",
                        !.place = place,
                        !.n = @ + 1]
    /\ UNCHANGED <<genomeVars, simVars, intel, pe, rateLab, prey>>

\* recordPosition(x, y): the positions are pushed, the zones are not looked at
CallRecordPosition ==
    /\ org.n < MaxMemoryCalls
    /\ \E now \in ClockReadings, place \in MemoryPlaces :
          /\ now >= org.now
          /\ org' = [org EXCEPT
                        !.recentPositions = Append(@, [x |-> place.x, y |-> place.y,
                                                       timestamp |-> now]),
                        !.now = now,
                        !.call = "recordPosition",
                        !.place = place,
                        !.n = @ + 1]
    /\ UNCHANGED <<genomeVars, simVars, intel, pe, rateLab, prey>>

NextMemory ==
    \/ CallRecordDangerZone
    \/ CallIsDangerousArea
    \/ CallRecordPosition

SpecMemory == InitMemory /\ [][NextMemory]_vars

\* C36 (as claimed): expired danger zones are pruned on every access: after
\* recordDangerZone or isDangerousArea the memory holds no zone whose expiry
\* time has passed, and isDangerousArea answers true only for a zone that
\* has not expired.
C36_ExpiredZonesPruned ==
    [][ (org'.n = org.n + 1 /\ org'.call \in {"recordDangerZone", "isDangerousArea"}) =>
          /\ \A i \in 1..Len(org'.dangerZones) : org'.now < org'.dangerZones[i].expiryTime
          /\ (org'.call = "isDangerousArea" /\ org'.returned)
                => \E i \in 1..Len(org.dangerZones) :
                      /\ org'.now < org.dangerZones[i].expiryTime
                      /\ WithinDistance(org'.place, org.dangerZones[i], dangerThreshold) ]_vars

====
